---- MODULE Spec2Model ----
(***************************************************************************)
(* Model of the contractapi dispatcher of fabric-chaincode-go: the         *)
(* registry of contracts (ContractChaincode), the phases of one Invoke     *)
(* (before transaction, named or unknown transaction, after transaction),  *)
(* ContractFunction.Call with formatArgs / convertArg / handleResponse,    *)
(* and the transaction context created for every invocation.               *)
(*                                                                         *)
(* Text is a sequence of tokens (a Go string cut into the pieces the code  *)
(* formats it from), so that Sprintf is concatenation and a command is     *)
(* split at its ":" token.                                                 *)
(***************************************************************************)
EXTENDS Integers, Sequences, FiniteSets, TLC

\* ------------------------------------------------------------------------
\* Bounds
\* ------------------------------------------------------------------------

\* number of invocations that may be in flight at once
NumDispatch == 2

\* number of contracts passed to CreateNewChaincode
MaxContracts == 2

Dispatches == 1..NumDispatch

\* ------------------------------------------------------------------------
\* reflect.Value, as far as handleResponse looks at it
\* ------------------------------------------------------------------------

\* the zero reflect.Value (IsValid() = false); also a nil interface{}
Invalid == [valid |-> FALSE, kind |-> "invalid", isNil |-> TRUE, s |-> <<>>, n |-> 0]

StringValue(t) == [valid |-> TRUE, kind |-> "string", isNil |-> FALSE, s |-> t, n |-> 0]

IntValue(i) == [valid |-> TRUE, kind |-> "int", isNil |-> FALSE, s |-> <<>>, n |-> i]

\* a []string; s holds the elements
SliceValue(elems) == [valid |-> TRUE, kind |-> "slice", isNil |-> FALSE, s |-> elems, n |-> 0]

NilSlice == [valid |-> TRUE, kind |-> "slice", isNil |-> TRUE, s |-> <<>>, n |-> 0]

\* errors.New(msg) held in a Value of the error interface type
ErrorValue(msg) == [valid |-> TRUE, kind |-> "interface", isNil |-> FALSE, s |-> msg, n |-> 0]

\* a nil error returned by a function: reflect gives a valid Value of kind
\* Interface for which IsNil() holds
NilError == [valid |-> TRUE, kind |-> "interface", isNil |-> TRUE, s |-> <<>>, n |-> 0]

\* contractFunctionReturns: success is the Kind of the success type, "nil"
\* when the function has no success return
Returns(success, error) == [success |-> success, error |-> error]

isNillableType(kind) == kind \in {"ptr", "interface", "map", "slice", "chan", "func"}

isMarshallingType(kind) == kind \in {"array", "slice", "map", "struct"}

\* fmt.Sprint of the values the model holds
Numerals == (0 :> <<"0">>) @@ (1 :> <<"1">>) @@ (2 :> <<"2">>) @@ (3 :> <<"3">>) @@ (4 :> <<"4">>) @@ (100 :> <<"100">>)

Sprint(v) == IF v.kind = "int" THEN Numerals[v.n] ELSE v.s

RECURSIVE JoinQuoted(_)
JoinQuoted(elems) ==
    IF elems = <<>> THEN <<>>
    ELSE IF Len(elems) = 1 THEN <<"\"", Head(elems), "\"">>
    ELSE <<"\"", Head(elems), "\"", ",">> \o JoinQuoted(Tail(elems))

\* json.Marshal of a []string
Marshal(v) == <<"[">> \o JoinQuoted(v.s) \o <<"]">>

ResponseMismatch == <<"response does not match expected return for given function">>

\* the number of values handleResponse expects of a function
expectedLength(returns) ==
    IF returns.success # "nil" /\ returns.error THEN 2
    ELSE IF returns.success # "nil" \/ returns.error THEN 1 ELSE 0

\* successResponse of handleResponse: the zero Value when the function has
\* no success return
successResponse(response, returns) ==
    IF returns.success # "nil" THEN response[1] ELSE Invalid

\* errorResponse of handleResponse
errorResponse(response, returns) ==
    IF returns.success # "nil" /\ returns.error THEN response[2]
    ELSE IF returns.success = "nil" /\ returns.error THEN response[1]
    ELSE Invalid

\* successString that marshals every value to JSON
successStringMarshalsAll(sr, returns) ==
    IF sr.valid /\ (~isNillableType(sr.kind) \/ ~sr.isNil) THEN Marshal(sr) ELSE <<>>

\* successString of handleResponse: empty for no value and for a nil value
\* of a nillable kind, JSON for a marshalling type, fmt.Sprint otherwise
successString(sr, returns) ==
    IF sr.valid /\ (~isNillableType(sr.kind) \/ ~sr.isNil)
    THEN IF isMarshallingType(returns.success)
            \/ (returns.success = "interface" /\ isMarshallingType(sr.kind))
         THEN Marshal(sr)
         ELSE Sprint(sr)
    ELSE <<>>

Handled(str, iface, err) == [str |-> str, iface |-> iface, err |-> err]

\* handleResponse that takes a response of another length for one of no
\* value and no error
handleResponseAnyLength(response, returns) ==
    IF Len(response) = expectedLength(returns)
    THEN LET sr == successResponse(response, returns)
             er == errorResponse(response, returns)
         IN  Handled(successString(sr, returns), sr,
                     IF er.valid /\ ~er.isNil THEN er ELSE NilError)
    ELSE Handled(<<>>, Invalid, NilError)

\* handleResponse that never reports the error a function returned
handleResponseSwallows(response, returns) ==
    IF Len(response) = expectedLength(returns)
    THEN LET sr == successResponse(response, returns)
         IN  Handled(successString(sr, returns), sr, NilError)
    ELSE Handled(<<>>, Invalid, ErrorValue(ResponseMismatch))

\* handleResponse that reports the error only when no success value came back
handleResponseDropsError(response, returns) ==
    IF Len(response) = expectedLength(returns)
    THEN LET sr == successResponse(response, returns)
             er == errorResponse(response, returns)
         IN  Handled(successString(sr, returns), sr,
                     IF er.valid /\ ~er.isNil /\ ~sr.valid THEN er ELSE NilError)
    ELSE Handled(<<>>, Invalid, ErrorValue(ResponseMismatch))

\* handleResponse that expects one value of every function that returns
\* anything
handleResponseWrongLength(response, returns) ==
    IF Len(response) = (IF returns.success # "nil" \/ returns.error THEN 1 ELSE 0)
    THEN LET sr == successResponse(response, returns)
             er == errorResponse(response, returns)
         IN  Handled(successString(sr, returns), sr,
                     IF er.valid /\ ~er.isNil THEN er ELSE NilError)
    ELSE Handled(<<>>, Invalid, ErrorValue(ResponseMismatch))

\* handleResponse that hands on the text of the success value in place of
\* the value
handleResponseUntyped(response, returns) ==
    IF Len(response) = expectedLength(returns)
    THEN LET sr == successResponse(response, returns)
             er == errorResponse(response, returns)
         IN  Handled(successString(sr, returns),
                     IF sr.valid THEN StringValue(successString(sr, returns)) ELSE sr,
                     IF er.valid /\ ~er.isNil THEN er ELSE NilError)
    ELSE Handled(<<>>, Invalid, ErrorValue(ResponseMismatch))

\* handleResponse: (successString, iface, errorError) of the values a
\* callable returned, against its validated return signature
handleResponse(response, returns) ==
    IF Len(response) = expectedLength(returns)
    THEN LET sr == successResponse(response, returns)
             er == errorResponse(response, returns)
         IN  Handled(successString(sr, returns), sr,
                     IF er.valid /\ ~er.isNil THEN er ELSE NilError)
    ELSE Handled(<<>>, Invalid, ErrorValue(ResponseMismatch))

\* ------------------------------------------------------------------------
\* Argument conversion
\* ------------------------------------------------------------------------

\* the element lists json.Unmarshal is tried on
JSONSlices == {<<>>, <<"a">>, <<"a", "b">>}

Converted(ok, value, err) == [ok |-> ok, value |-> value, err |-> err]

\* strict textual conversion of a primitive kind: a string converts to
\* itself, an int only from a numeral
BasicTypeConvert(kind, paramValue) ==
    IF kind = "string" THEN Converted(TRUE, StringValue(paramValue), <<>>)
    ELSE IF \E i \in DOMAIN Numerals : Numerals[i] = paramValue
         THEN Converted(TRUE, IntValue(CHOOSE i \in DOMAIN Numerals : Numerals[i] = paramValue), <<>>)
         ELSE Converted(FALSE, Invalid,
                        <<"Cannot convert passed value ">> \o paramValue \o <<" to ", kind>>)

createArraySliceMapOrStruct(param, objType) ==
    IF param = <<"null">> THEN Converted(TRUE, NilSlice, <<>>)
    ELSE IF \E e \in JSONSlices : Marshal(SliceValue(e)) = param
         THEN Converted(TRUE, SliceValue(CHOOSE e \in JSONSlices : Marshal(SliceValue(e)) = param), <<>>)
         ELSE Converted(FALSE, Invalid,
                        <<"Value ">> \o param \o <<" was not passed in expected format ", objType>>)

convertArg(fieldType, paramValue) ==
    LET c == IF fieldType \in {"array", "slice", "map", "struct"}
             THEN createArraySliceMapOrStruct(paramValue, fieldType)
             ELSE BasicTypeConvert(fieldType, paramValue)
    IN  IF ~c.ok THEN Converted(FALSE, Invalid, <<"Conversion error ">> \o c.err) ELSE c

\* a parameter schema: the JSON type it asks for, or (type "$ref") the name
\* of the component it refers to
Schema(type, ref) == [type |-> type, ref |-> ref]

SchemaTypeOf(kind) ==
    IF kind = "int" THEN "integer" ELSE IF kind = "slice" THEN "array" ELSE kind

ValidateErrorsToString(resErrors) ==
    IF resErrors = <<>> THEN <<>> ELSE <<"1. ">> \o resErrors[1]

\* validateAgainstSchema: <<>> for nil, else the error text
validateAgainstSchema(toValidate, comparisonSchema, components) ==
    IF comparisonSchema.type = "$ref" /\ comparisonSchema.ref \notin components
    THEN <<"Invalid schema for parameter: ", "Object has no key '", comparisonSchema.ref, "'">>
    ELSE IF SchemaTypeOf(toValidate.kind) # comparisonSchema.type
    THEN <<"Value passed for parameter did not match schema:\n">>
            \o ValidateErrorsToString(<< <<"prop: Invalid type. Expected: ", comparisonSchema.type,
                                            ", given: ", SchemaTypeOf(toValidate.kind)>> >>)
    ELSE <<>>

ParameterMetadata(name, schema) == [Name |-> name, Schema |-> schema]

\* metadata.TransactionMetadata, as far as formatArgs reads it; NoMetadata is
\* the nil pointer
NoMetadata == [isNil |-> TRUE, Parameters |-> <<>>]

TransactionMetadata(parameters) == [isNil |-> FALSE, Parameters |-> parameters]

Formatted(ok, ctx, args, err) == [ok |-> ok, ctx |-> ctx, args |-> args, err |-> err]

\* the outcome of parameter i of formatArgs: its conversion, then its
\* validation when metadata was supplied
FormatArg(fn, supplementaryMetadata, components, params, i) ==
    LET fieldType == fn.params.fields[i]
        paramName == IF ~supplementaryMetadata.isNil
                     THEN <<" ">> \o supplementaryMetadata.Parameters[i].Name ELSE <<>>
        c == convertArg(fieldType, params[i])
    IN  IF ~c.ok
        THEN Converted(FALSE, Invalid, <<"Error converting parameter">> \o paramName \o <<". ">> \o c.err)
        ELSE IF ~supplementaryMetadata.isNil
        THEN LET paramMetdata == supplementaryMetadata.Parameters[i]
                 verr == validateAgainstSchema(c.value, paramMetdata.Schema, components)
             IN  IF verr # <<>>
                 THEN Converted(FALSE, Invalid,
                                <<"Error validating parameter ">> \o paramMetdata.Name \o <<". ">> \o verr)
                 ELSE c
        ELSE c

\* formatArgs: the values handed to the function (the context first when
\* the function takes it), or the first error
formatArgs(fn, ctx, supplementaryMetadata, components, params) ==
    LET numParams == Len(fn.params.fields)
        passed == IF fn.params.context # "nil" THEN ctx ELSE 0
    IN  IF ~supplementaryMetadata.isNil /\ Len(supplementaryMetadata.Parameters) # numParams
        THEN Formatted(FALSE, 0, <<>>,
                 <<"Incorrect number of params in supplementary metadata. Expected ">>
                 \o Numerals[numParams] \o <<", received ">>
                 \o Numerals[Len(supplementaryMetadata.Parameters)])
        ELSE IF Len(params) < numParams
        THEN Formatted(FALSE, 0, <<>>,
                 <<"Incorrect number of params. Expected ">> \o Numerals[numParams]
                 \o <<", received ">> \o Numerals[Len(params)])
        ELSE LET res == [i \in 1..numParams |->
                            FormatArg(fn, supplementaryMetadata, components, params, i)]
                 bad == {i \in 1..numParams : ~res[i].ok}
             IN  IF bad # {}
                 THEN Formatted(FALSE, 0, <<>>, res[CHOOSE i \in bad : \A j \in bad : i <= j].err)
                 ELSE Formatted(TRUE, passed, [i \in 1..numParams |-> res[i].value], <<>>)

\* ------------------------------------------------------------------------
\* Contract functions and the functions of the contracts under test
\* ------------------------------------------------------------------------

standardValue == <<"100">>

\* a function of a contract: the values it returns (result "fixed"), or
\* param1 + param2 ("concat"), or what GetValInCustomContext derives from
\* the context ("getval"); sets tells whether it stores params[0] of the
\* stub in the context, as SetValInCustomContext does
Function(name, result, vals, sets) == [name |-> name, result |-> result, vals |-> vals, sets |-> sets]

contractFunctionParams(context, fields) == [context |-> context, fields |-> fields]

\* ContractFunction (and TransactionHandler, which adds handlesType)
ContractFunction(function, handlesType, params, returns) ==
    [isNil |-> FALSE, function |-> function, handlesType |-> handlesType,
     params |-> params, returns |-> returns]

\* the nil *TransactionHandler of a contract that sets no such hook
NoHandler ==
    [isNil |-> TRUE, function |-> Function("", "fixed", <<>>, FALSE), handlesType |-> "na",
     params |-> contractFunctionParams("nil", <<>>), returns |-> Returns("nil", FALSE)]

someError == <<"Some error">>

LogNamed(t) ==
    ContractFunction(Function("LogNamed", "fixed", <<StringValue(<<"named response">>)>>, FALSE),
                     t, contractFunctionParams("nil", <<>>), Returns("string", FALSE))

ReturnsString(t) ==
    ContractFunction(Function("ReturnsString", "fixed", <<StringValue(<<"Some string">>)>>, FALSE),
                     t, contractFunctionParams("nil", <<>>), Returns("string", FALSE))

ReturnsError(t) ==
    ContractFunction(Function("ReturnsError", "fixed", <<ErrorValue(someError)>>, FALSE),
                     t, contractFunctionParams("nil", <<>>), Returns("nil", TRUE))

ReturnsNothing(t) ==
    ContractFunction(Function("ReturnsNothing", "fixed", <<>>, FALSE),
                     t, contractFunctionParams("nil", <<>>), Returns("nil", FALSE))

\* a function that returns a value together with a non-nil error
ReturnsValueAndError(t) ==
    ContractFunction(Function("ReturnsValueAndError", "fixed",
                              <<StringValue(<<"true">>), ErrorValue(<<"some error">>)>>, FALSE),
                     t, contractFunctionParams("nil", <<>>), Returns("string", TRUE))

CheckContextStub(t) ==
    ContractFunction(Function("CheckContextStub", "fixed",
                              <<StringValue(<<"Stub as expected">>), NilError>>, FALSE),
                     t, contractFunctionParams("ctx", <<>>), Returns("string", TRUE))

GoodMethod(t) ==
    ContractFunction(Function("GoodMethod", "concat", <<>>, FALSE),
                     t, contractFunctionParams("nil", <<"string", "string">>), Returns("string", FALSE))

AnotherGoodMethod(t) ==
    ContractFunction(Function("AnotherGoodMethod", "fixed", <<IntValue(1)>>, FALSE),
                     t, contractFunctionParams("nil", <<>>), Returns("int", FALSE))

SomeFunction(t) ==
    ContractFunction(Function("SomeFunction", "fixed", <<StringValue(<<>>), NilError>>, FALSE),
                     t, contractFunctionParams("nil", <<"string", "int">>), Returns("string", TRUE))

SetValInCustomContext(t) ==
    ContractFunction(Function("SetValInCustomContext", "fixed", <<>>, TRUE),
                     t, contractFunctionParams("ctx", <<>>), Returns("nil", FALSE))

GetValInCustomContext(t) ==
    ContractFunction(Function("GetValInCustomContext", "getval", <<>>, FALSE),
                     t, contractFunctionParams("ctx", <<>>), Returns("string", TRUE))

logBefore(t) ==
    ContractFunction(Function("logBefore", "fixed", <<>>, FALSE),
                     t, contractFunctionParams("nil", <<>>), Returns("nil", FALSE))

logAfter(t) ==
    ContractFunction(Function("logAfter", "fixed", <<>>, FALSE),
                     t, contractFunctionParams("nil", <<"interface">>), Returns("nil", FALSE))

logUnknown(t) ==
    ContractFunction(Function("logUnknown", "fixed", <<>>, FALSE),
                     t, contractFunctionParams("nil", <<>>), Returns("nil", FALSE))

\* a context instance: the stub set into it, the prop1 field of
\* customContext, and (history) the invocation that last wrote prop1
ZeroContext == [live |-> FALSE, stub |-> 0, prop1 |-> <<>>, by |-> 0]

\* the values GetValInCustomContext returns for a context whose prop1 is p
GetVal(p) ==
    IF p # standardValue
    THEN <<StringValue(<<>>), ErrorValue(<<"I wanted a standard value">>)>>
    ELSE <<StringValue(p), NilError>>

\* reflect's function.Call(values): the values the function returns
FunctionCall(function, c, args) ==
    IF function.result = "concat" THEN <<StringValue(args[1].s \o args[2].s)>>
    ELSE IF function.result = "getval" THEN GetVal(c.prop1)
    ELSE function.vals

\* SetProp on a copy of the context: the instance the caller holds is left
\* as it was
SetPropOnCopy(h, id, stubParams, d) == h

\* ctx.prop1 = params[0], through the pointer: every later reader of the
\* instance sees it
SetProp(h, id, stubParams, d) == [h EXCEPT ![id].prop1 = stubParams[1], ![id].by = d]

\* ctx.SetStub(stub)
SetStub(c, d) == [c EXCEPT !.stub = d]

\* the error among the values a function returned: NilError when it
\* returned none
ReturnedError(someResp) ==
    LET errs == {i \in 1..Len(someResp) : someResp[i].kind = "interface" /\ ~someResp[i].isNil}
    IN  IF errs = {} THEN NilError ELSE someResp[CHOOSE i \in errs : TRUE]

\* (history) one entry of the log of calls made for an invocation: the
\* function and what it was registered as, the data handed to it as an after
\* transaction, the context instance passed (0 for none), what the function
\* read in it and wrote to it, and the error it returned
CallEntry(cf, data, id, c, stubParams, someResp) ==
    [name |-> cf.function.name, handlesType |-> cf.handlesType, data |-> data, ctx |-> id,
     read |-> IF id = 0 THEN <<>> ELSE c.prop1,
     readBy |-> IF id = 0 THEN 0 ELSE c.by,
     wrote |-> id # 0 /\ cf.function.sets,
     written |-> IF id # 0 /\ cf.function.sets THEN stubParams[1] ELSE <<>>,
     returned |-> someResp,
     error |-> ReturnedError(someResp)]

NoEntry == <<>>

Called(res, h, entries) == [res |-> res, heap |-> h, entries |-> entries]

\* function.Call(values) followed by handleResponse, for invocation d on the
\* heap of contexts h; the function runs against the context only when it
\* was handed one
Run(cf, id, data, args, stubParams, d, h) ==
    LET c == IF id = 0 THEN ZeroContext ELSE h[id]
        someResp == FunctionCall(cf.function, c, args)
    IN  Called(handleResponse(someResp, cf.returns),
               IF id # 0 /\ cf.function.sets THEN SetProp(h, id, stubParams, d) ELSE h,
               <<CallEntry(cf, data, id, c, stubParams, someResp)>>)

\* ContractFunction.Call
Call(cf, ctx, supplementaryMetadata, components, params, d, h) ==
    LET f == formatArgs(cf, ctx, supplementaryMetadata, components, params)
    IN  IF ~f.ok
        THEN Called(Handled(<<>>, Invalid, ErrorValue(f.err)), h, NoEntry)
        ELSE Run(cf, f.ctx, Invalid, f.args, params, d, h)

\* TransactionHandler.Call: the context when the handler takes it, and the
\* data (the value the transaction just returned) when an after transaction
\* takes one parameter
HandlerCall(th, ctx, data, stubParams, d, h) ==
    LET id == IF th.params.context # "nil" THEN ctx ELSE 0
        passed == IF th.handlesType = "after" /\ Len(th.params.fields) = 1 THEN data ELSE Invalid
    IN  Run(th, id, passed, <<passed>>, stubParams, d, h)

\* ------------------------------------------------------------------------
\* The registry: ContractChaincode and its contracts
\* ------------------------------------------------------------------------

\* ContractFunction.ReflectMetadata, as far as Call reads it: one parameter
\* "param<i>" per field, with the schema of the field's type
ReflectMetadata(cf) ==
    TransactionMetadata([i \in 1..Len(cf.params.fields) |->
        ParameterMetadata(<<"param">> \o Numerals[i - 1],
                          Schema(SchemaTypeOf(cf.params.fields[i]), ""))])

\* contractChaincodeContract
Contract(functions, before, unknown, after, handler) ==
    [version |-> <<"latest">>, functions |-> functions,
     beforeTransaction |-> before, unknownTransaction |-> unknown, afterTransaction |-> after,
     transactionContextHandler |-> handler]

goodName == <<"goodContract">>

myName == <<"myContract">>

SystemContractName == <<"org.hyperledger.fabric">>

\* the functions of goodContract (with those of the contracts it is tested
\* beside), by name
goodFunctions ==
    LET fs == {LogNamed("na"), ReturnsString("na"), ReturnsError("na"), ReturnsNothing("na"),
               ReturnsValueAndError("na"), CheckContextStub("na"), GoodMethod("na"),
               AnotherGoodMethod("na"), SomeFunction("na"), SetValInCustomContext("na"),
               GetValInCustomContext("na")}
    IN  [n \in {<<f.function.name>> : f \in fs} |-> CHOOSE f \in fs : <<f.function.name>> = n]

myContract == Contract((<<"ReturnsString">> :> ReturnsString("na")), NoHandler, NoHandler, NoHandler,
                       "TransactionContext")

GetMetadata ==
    ContractFunction(Function("GetMetadata", "fixed", <<StringValue(<<"{metadata}">>)>>, FALSE),
                     "na", contractFunctionParams("nil", <<>>), Returns("string", FALSE))

systemContract == Contract((<<"GetMetadata">> :> GetMetadata), NoHandler, NoHandler, NoHandler,
                           "TransactionContext")

\* ContractChaincode once CreateNewChaincode returned it: the contracts
\* passed, the system contract, the first contract as default, and the
\* metadata reflected from them
ContractChaincode(default, good) ==
    LET contracts == (goodName :> good) @@ (myName :> myContract)
                     @@ (SystemContractName :> systemContract)
    IN  [defaultContract |-> default,
         contracts |-> contracts,
         metadata |-> [Contracts |-> [c \in DOMAIN contracts |->
                                        [f \in DOMAIN contracts[c].functions |->
                                            ReflectMetadata(contracts[c].functions[f])]],
                       Components |-> {}]]

BeforeHandlers ==
    {NoHandler, logBefore("before"), ReturnsError("before"), SetValInCustomContext("before")}

UnknownHandlers ==
    {NoHandler, logUnknown("unknown"), ReturnsError("unknown"), ReturnsString("unknown")}

AfterHandlers ==
    {NoHandler, logAfter("after"), ReturnsError("after"), ReturnsString("after"),
     GetValInCustomContext("after")}

\* the chaincodes the invocations are checked on: goodContract with every
\* choice of its three handlers, either contract passed first
Chaincodes ==
    {ContractChaincode(def, Contract(goodFunctions, b, u, a, "customContext")) :
        def \in {goodName, myName}, b \in BeforeHandlers, u \in UnknownHandlers, a \in AfterHandlers}

\* the chaincodes invocations are run in parallel on
ParallelChaincodes ==
    {ContractChaincode(goodName, Contract(goodFunctions, b, logUnknown("unknown"), a, "customContext")) :
        b \in {NoHandler, SetValInCustomContext("before")},
        a \in {NoHandler, GetValInCustomContext("after")}}

\* stub.GetFunctionAndParameters()
Stub(function, params) == [function |-> function, params |-> params]

NoStub == Stub(<<>>, <<>>)

Names == {<<"LogNamed">>, <<"ReturnsString">>, <<"ReturnsError">>, <<"ReturnsNothing">>,
          <<"ReturnsValueAndError">>, <<"CheckContextStub">>, <<"GoodMethod">>,
          <<"AnotherGoodMethod">>, <<"SomeFunction">>, <<"SetValInCustomContext">>,
          <<"GetValInCustomContext">>, <<"GetMetadata">>, <<"somebadfunctionname">>}

\* the invocations the peer may deliver: a function name alone or after
\* "<contract>:", with one or two parameters
Requests ==
    {Stub(c, p) :
        c \in {<<"LogNamed">>, <<"ReturnsString">>, <<"GetMetadata">>, <<"somebadfunctionname">>}
              \cup {goodName \o <<":">> \o n : n \in Names}
              \cup {myName \o <<":", "ReturnsString">>, myName \o <<":", "somebadfunctionname">>,
                    SystemContractName \o <<":", "GetMetadata">>,
                    <<"somebadname", ":", "somebadfunctionname">>,
                    <<"somebadname", ":", "ReturnsString">>},
        p \in {<<standardValue>>, <<<<"a">>, standardValue>>, <<<<"a">>, <<"x">>>>}}

\* ------------------------------------------------------------------------
\* reflect.Type and the types a contract function may take and return
\* ------------------------------------------------------------------------

\* a struct field: its name, the value of its json tag and its type
StructField(name, tag, type) == [name |-> name, tag |-> tag, type |-> type]

\* a reflect.Type: Kind(), Name(), PkgPath(), and as the kind has them
\* Elem(), Key(), Len() and the fields; a type is referred to by String()
Type(kind, name, pkg, elem, key, len, fields) ==
    [kind |-> kind, name |-> name, pkg |-> pkg, elem |-> elem, key |-> key, len |-> len,
     fields |-> fields]

\* the kinds of types.BasicTypes, as basicTypesAsSlice sorts them
basicTypesAsSlice ==
    <<"bool", "float32", "float64", "int", "int16", "int32", "int64", "int8", "interface",
      "string", "uint", "uint16", "uint32", "uint64", "uint8">>

BasicTypes == {basicTypesAsSlice[i] : i \in DOMAIN basicTypesAsSlice}

RECURSIVE sliceAsCommaSentence(_)
sliceAsCommaSentence(slice) ==
    IF Len(slice) = 0 THEN <<>>
    ELSE IF Len(slice) = 1 THEN <<slice[1]>>
    ELSE IF Len(slice) = 2 THEN <<slice[1], " and ", slice[2]>>
    ELSE <<slice[1], ", ">> \o sliceAsCommaSentence(Tail(slice))

listBasicTypes == sliceAsCommaSentence(basicTypesAsSlice)

PrimitiveType(kind) == Type(kind, kind, "", "", "", 0, <<>>)

ArrayType(elem, len) == Type("array", "", "", elem, "", len, <<>>)

SliceType(elem) == Type("slice", "", "", elem, "", 0, <<>>)

MapType(key, elem) == Type("map", "", "", elem, key, 0, <<>>)

StructType(pkg, name, fields) == Type("struct", name, pkg, "", "", 0, fields)

PtrType(elem) == Type("ptr", "", "", elem, "", 0, <<>>)

InterfaceType(pkg, name) == Type("interface", name, pkg, "", "", 0, <<>>)

\* the types of the program the model works on, by String()
reflectTypes ==
    [k \in (BasicTypes \ {"interface"}) \cup {"complex64"} |-> PrimitiveType(k)]
    @@ ("interface {}" :> InterfaceType("", ""))
    @@ ("error" :> InterfaceType("", "error"))
    @@ ("internal.UsefulInterface" :> InterfaceType("internal", "UsefulInterface"))
    @@ ("*string" :> PtrType("string"))
    @@ ("[1]string" :> ArrayType("string", 1))
    @@ ("[0]int" :> ArrayType("int", 0))
    @@ ("[1]complex64" :> ArrayType("complex64", 1))
    @@ ("[1]error" :> ArrayType("error", 1))
    @@ ("[]string" :> SliceType("string"))
    @@ ("[]complex64" :> SliceType("complex64"))
    @@ ("[]error" :> SliceType("error"))
    @@ ("[1][]error" :> ArrayType("[]error", 1))
    @@ ("map[string]error" :> MapType("string", "error"))
    @@ ("map[string]string" :> MapType("string", "string"))
    @@ ("map[string]complex64" :> MapType("string", "complex64"))
    @@ ("map[complex64]string" :> MapType("complex64", "string"))
    @@ ("internal.goodStruct" :>
           StructType("internal", "goodStruct",
                      <<StructField("Prop1", "", "string"), StructField("Prop2", "prop2", "int")>>))
    @@ ("*internal.goodStruct" :> PtrType("internal.goodStruct"))
    @@ ("[]internal.goodStruct" :> SliceType("internal.goodStruct"))
    @@ ("internal.BadStruct" :>
           StructType("internal", "BadStruct",
                      <<StructField("Prop1", "Prop1", "string"),
                        StructField("Prop2", "prop2", "complex64")>>))
    @@ ("internal.BadStruct2" :>
           StructType("internal", "BadStruct2", <<StructField("Prop1", "", "internal.BadStruct")>>))
    @@ ("internal.goodStruct2" :>
           StructType("internal", "goodStruct2", <<StructField("Prop1", "", "internal.goodStruct")>>))
    @@ ("internal.goodStruct3" :>
           StructType("internal", "goodStruct3", <<StructField("Prop1", "", "*internal.goodStruct")>>))
    @@ ("contractapi.simpleStruct" :>
           StructType("contractapi", "simpleStruct",
                      <<StructField("Prop1", "prop1", "string"), StructField("prop2", "", "string")>>))
    @@ ("internal.usefulStruct" :>
           StructType("internal", "usefulStruct",
                      <<StructField("ptr", "", "*string"), StructField("basic", "", "string")>>))
    @@ ("main.Mixed" :>
           StructType("main", "Mixed",
                      <<StructField("Exported1", "", "string"), StructField("unexported", "", "int"),
                        StructField("Exported2", "", "complex64")>>))
    @@ ("main.Hidden" :>
           StructType("main", "Hidden",
                      <<StructField("Exported1", "first", "string"), StructField("unexported", "", "int"),
                        StructField("Exported2", "", "internal.goodStruct")>>))
    @@ ("*main.Hidden" :> PtrType("main.Hidden"))
    @@ ("other.goodStruct" :>
           StructType("other", "goodStruct", <<StructField("Value", "", "bool")>>))
    @@ ("main.Tagged" :>
           StructType("main", "Tagged",
                      <<StructField("First", "first,omitempty", "string"),
                        StructField("Second", "second", "int")>>))
    @@ ("*contractapi.TransactionContext" :> PtrType("contractapi.TransactionContext"))
    @@ ("contractapi.TransactionContext" :>
           StructType("contractapi", "TransactionContext",
                      <<StructField("stub", "", "shim.ChaincodeStubInterface")>>))
    @@ ("*contractapi.customContext" :> PtrType("contractapi.customContext"))
    @@ ("contractapi.customContext" :>
           StructType("contractapi", "customContext",
                      <<StructField("TransactionContext", "", "contractapi.TransactionContext"),
                        StructField("prop1", "", "string")>>))
    @@ ("shim.ChaincodeStubInterface" :> InterfaceType("shim", "ChaincodeStubInterface"))
    @@ ("contractapi.TransactionContextInterface" :>
           InterfaceType("contractapi", "TransactionContextInterface"))
    @@ ("contractapi.SettableTransactionContextInterface" :>
           InterfaceType("contractapi", "SettableTransactionContextInterface"))
    @@ ("internal.myInterface" :> InterfaceType("internal", "myInterface"))
    @@ ("main.Node" :>
           StructType("main", "Node",
                      <<StructField("Value", "", "string"), StructField("Next", "", "*main.Node")>>))
    @@ ("*main.Node" :> PtrType("main.Node"))
    @@ ("main.Tree" :>
           StructType("main", "Tree", <<StructField("Children", "", "[]main.Tree")>>))
    @@ ("[]main.Tree" :> SliceType("main.Tree"))
    @@ ("main.Graph" :>
           StructType("main", "Graph", <<StructField("Edges", "", "map[string]main.Graph")>>))
    @@ ("map[string]main.Graph" :> MapType("string", "main.Graph"))

\* the types of the table that contain their own type, through a pointer, a
\* slice or a map
RecursiveTypes ==
    {"main.Node", "*main.Node", "main.Tree", "[]main.Tree", "main.Graph", "map[string]main.Graph"}

TypeNames == DOMAIN reflectTypes \ RecursiveTypes

\* []rune(name)[0] of the names of the fields
FirstRune ==
    ("Exported1" :> "E") @@ ("Exported2" :> "E") @@ ("First" :> "F") @@ ("Second" :> "S")
    @@ ("Next" :> "N") @@ ("Children" :> "C") @@ ("Edges" :> "E")
    @@ ("Prop1" :> "P") @@ ("Prop2" :> "P")
    @@ ("TransactionContext" :> "T") @@ ("Value" :> "V") @@ ("basic" :> "b") @@ ("prop1" :> "p")
    @@ ("prop2" :> "p") @@ ("ptr" :> "p") @@ ("stub" :> "s") @@ ("unexported" :> "u")

\* unicode.IsLower
IsLower(r) ==
    r \in {"a", "b", "c", "d", "e", "f", "g", "h", "i", "j", "k", "l", "m", "n", "o", "p", "q",
           "r", "s", "t", "u", "v", "w", "x", "y", "z"}

\* a field the loops over the fields of a struct go on from
IsExported(name) == name # "" /\ ~IsLower(FirstRune[name])

isStruct(t) ==
    \/ reflectTypes[t].kind = "struct"
    \/ reflectTypes[t].kind = "ptr" /\ reflectTypes[reflectTypes[t].elem].kind = "struct"

typeInSlice(a, list) == a \in list

RECURSIVE typeIsValid(_, _)

RECURSIVE FirstFieldError(_, _, _)
\* the loop of structOfValidType from field i on: the first error, <<>> for nil
FirstFieldError(fields, i, additionalTypes) ==
    IF i > Len(fields) THEN <<>>
    ELSE LET err == typeIsValid(fields[i].type, additionalTypes)
         IN  IF err # <<>> THEN err ELSE FirstFieldError(fields, i + 1, additionalTypes)

arrayOfValidType(array, additionalTypes) ==
    IF reflectTypes[array].len < 1 THEN <<"Arrays must have length greater than 0">>
    ELSE typeIsValid(reflectTypes[array].elem, additionalTypes)

\* structOfValidType that leaves the loop at the first field whose name is
\* not exported
structOfValidTypeExported(obj, additionalTypes) ==
    LET o == IF reflectTypes[obj].kind = "ptr" THEN reflectTypes[obj].elem ELSE obj
        fields == reflectTypes[o].fields
        hidden == {i \in 1..Len(fields) : ~IsExported(fields[i].name)}
        n == IF hidden = {} THEN Len(fields) ELSE (CHOOSE i \in hidden : \A j \in hidden : i <= j) - 1
    IN  FirstFieldError(SubSeq(fields, 1, n), 1, additionalTypes)

structOfValidType(obj, additionalTypes) ==
    LET o == IF reflectTypes[obj].kind = "ptr" THEN reflectTypes[obj].elem ELSE obj
    IN  FirstFieldError(reflectTypes[o].fields, 1, additionalTypes)

\* the names of the additional types, for the error text
SetToSeq(S) ==
    CHOOSE q \in [1..Cardinality(S) -> S] : \A i, j \in 1..Cardinality(S) : i # j => q[i] # q[j]

\* typeIsValid that hands the additional types on to the elements of a
\* slice and the values of a map
typeIsValidHandsOn(t, additionalTypes) ==
    LET T == reflectTypes[t]
    IN  IF T.kind = "array" THEN arrayOfValidType(t, additionalTypes)
        ELSE IF T.kind = "slice" THEN typeIsValid(T.elem, additionalTypes)
        ELSE IF T.kind = "map"
        THEN IF reflectTypes[T.key].kind # "string"
             THEN <<"Map key type ", T.key, " is not valid. Expected string">>
             ELSE typeIsValid(T.elem, additionalTypes)
        ELSE IF isStruct(t) /\ ~typeInSlice(t, additionalTypes)
        THEN structOfValidType(t, additionalTypes)
        ELSE IF (T.kind \notin BasicTypes \/ (T.kind = "interface" /\ t # "interface {}"))
                /\ ~typeInSlice(t, additionalTypes)
        THEN IF additionalTypes # {}
             THEN <<"Type ", t, " is not valid. Expected a struct, one of the basic types ">>
                  \o listBasicTypes
                  \o <<", an array/slice of these, or one of these additional types ">>
                  \o sliceAsCommaSentence(SetToSeq(additionalTypes))
             ELSE <<"Type ", t, " is not valid. Expected a struct or one of the basic types ">>
                  \o listBasicTypes \o <<" or an array/slice of these">>
        ELSE <<>>

\* typeIsValid that finds no fault with any type
typeIsValidAnything(t, additionalTypes) == <<>>

typeIsValid(t, additionalTypes) ==
    LET T == reflectTypes[t]
    IN  IF T.kind = "array" THEN arrayOfValidType(t, additionalTypes)
        ELSE IF T.kind = "slice" THEN typeIsValid(T.elem, {})
        ELSE IF T.kind = "map"
        THEN IF reflectTypes[T.key].kind # "string"
             THEN <<"Map key type ", T.key, " is not valid. Expected string">>
             ELSE typeIsValid(T.elem, {})
        ELSE IF isStruct(t) /\ ~typeInSlice(t, additionalTypes)
        THEN structOfValidType(t, additionalTypes)
        ELSE IF (T.kind \notin BasicTypes \/ (T.kind = "interface" /\ t # "interface {}"))
                /\ ~typeInSlice(t, additionalTypes)
        THEN IF additionalTypes # {}
             THEN <<"Type ", t, " is not valid. Expected a struct, one of the basic types ">>
                  \o listBasicTypes
                  \o <<", an array/slice of these, or one of these additional types ">>
                  \o sliceAsCommaSentence(SetToSeq(additionalTypes))
             ELSE <<"Type ", t, " is not valid. Expected a struct or one of the basic types ">>
                  \o listBasicTypes \o <<" or an array/slice of these">>
        ELSE <<>>

\* ------------------------------------------------------------------------
\* GetSchema and the components
\* ------------------------------------------------------------------------

\* types.BasicTypes[kind].GetSchema(): the type and the format of the
\* OpenAPI property of the kind
BasicTypeSchema ==
    ("bool" :> [type |-> "boolean", format |-> ""])
    @@ ("string" :> [type |-> "string", format |-> ""])
    @@ ("int" :> [type |-> "integer", format |-> "int64"])
    @@ ("int8" :> [type |-> "integer", format |-> "int8"])
    @@ ("int16" :> [type |-> "integer", format |-> "int16"])
    @@ ("int32" :> [type |-> "integer", format |-> "int32"])
    @@ ("int64" :> [type |-> "integer", format |-> "int64"])
    @@ ("uint" :> [type |-> "number", format |-> "float64"])
    @@ ("uint8" :> [type |-> "integer", format |-> "int32"])
    @@ ("uint16" :> [type |-> "integer", format |-> "int64"])
    @@ ("uint32" :> [type |-> "integer", format |-> "int64"])
    @@ ("uint64" :> [type |-> "number", format |-> "float64"])
    @@ ("float32" :> [type |-> "number", format |-> "float"])
    @@ ("float64" :> [type |-> "number", format |-> "double"])
    @@ ("interface" :> [type |-> "object", format |-> ""])

\* spec.ArrayProperty(items)
ArrayProperty(items) == [type |-> "array", items |-> items]

\* spec.MapProperty(property)
MapProperty(property) == [type |-> "object", additionalProperties |-> property]

\* spec.RefSchema(ref)
RefSchema(ref) == [ref |-> ref]

\* the nil *spec.Schema
NilSchema == [nil |-> TRUE]

\* ObjectMetadata: Properties by name, and Required in the order appended
ObjectMetadata(properties, required) ==
    [Properties |-> properties, Required |-> required, AdditionalProperties |-> FALSE]

\* what GetSchema and the builders return, with the components as they
\* leave them
Built(schema, err, schemas) == [schema |-> schema, err |-> err, components |-> schemas]

RECURSIVE GetSchema(_, _)

\* buildArraySchema
buildArraySchema(array, schemas) ==
    IF reflectTypes[array].len < 1
    THEN Built(NilSchema, <<"Arrays must have length greater than 0">>, schemas)
    ELSE LET lower == GetSchema(reflectTypes[array].elem, schemas)
         IN  IF lower.err # <<>> THEN Built(NilSchema, lower.err, lower.components)
             ELSE Built(ArrayProperty(lower.schema), <<>>, lower.components)

\* buildSliceSchema
buildSliceSchema(slice, schemas) ==
    LET lower == GetSchema(reflectTypes[slice].elem, schemas)
    IN  IF lower.err # <<>> THEN Built(NilSchema, lower.err, lower.components)
        ELSE Built(ArrayProperty(lower.schema), <<>>, lower.components)

\* buildMapSchema
buildMapSchema(rmap, schemas) ==
    LET lower == GetSchema(reflectTypes[rmap].elem, schemas)
    IN  IF lower.err # <<>> THEN Built(NilSchema, lower.err, lower.components)
        ELSE Built(MapProperty(lower.schema), <<>>, lower.components)

RECURSIVE AddFields(_, _, _, _)
\* the loop of addComponentIfNotExists from field i on, with the schema so
\* far: it is left at the first field whose name is not exported
AddFields(fields, i, schema, schemas) ==
    IF i > Len(fields) \/ ~IsExported(fields[i].name)
    THEN Built(schema, <<>>, schemas)
    ELSE LET name == IF fields[i].tag = "" THEN fields[i].name ELSE fields[i].tag
             prop == GetSchema(fields[i].type, schemas)
         IN  IF prop.err # <<>> THEN Built(schema, prop.err, prop.components)
             ELSE AddFields(fields, i + 1,
                            ObjectMetadata((name :> prop.schema) @@ schema.Properties,
                                           Append(schema.Required, name)),
                            prop.components)

\* addComponentIfNotExists that adds the fields to the component it finds
addComponentAgain(obj, schemas) ==
    LET o == IF reflectTypes[obj].kind = "ptr" THEN reflectTypes[obj].elem ELSE obj
        name == reflectTypes[o].name
        found == IF name \in DOMAIN schemas THEN schemas[name] ELSE ObjectMetadata(<<>>, <<>>)
        r == AddFields(reflectTypes[o].fields, 1, found, schemas)
    IN  IF r.err # <<>> THEN Built(NilSchema, r.err, r.components)
        ELSE Built(NilSchema, <<>>, (name :> r.schema) @@ r.components)

\* addComponentIfNotExists: the component of the struct under obj.Name(),
\* unless there is one of that name
addComponentIfNotExists(obj, schemas) ==
    LET o == IF reflectTypes[obj].kind = "ptr" THEN reflectTypes[obj].elem ELSE obj
        name == reflectTypes[o].name
        r == AddFields(reflectTypes[o].fields, 1, ObjectMetadata(<<>>, <<>>), schemas)
    IN  IF name \in DOMAIN schemas THEN Built(NilSchema, <<>>, schemas)
        ELSE IF r.err # <<>> THEN Built(NilSchema, r.err, r.components)
        ELSE Built(NilSchema, <<>>, (name :> r.schema) @@ r.components)

\* buildStructSchema
buildStructSchema(obj, schemas) ==
    LET o == IF reflectTypes[obj].kind = "ptr" THEN reflectTypes[obj].elem ELSE obj
        r == addComponentIfNotExists(o, schemas)
    IN  IF r.err # <<>> THEN r
        ELSE Built(RefSchema(<<"#/components/schemas/", reflectTypes[o].name>>), <<>>, r.components)

\* GetSchema(field, components)
GetSchema(field, schemas) ==
    LET kind == reflectTypes[field].kind
    IN  IF kind \notin BasicTypes
        THEN IF kind = "array" THEN buildArraySchema(field, schemas)
             ELSE IF kind = "slice" THEN buildSliceSchema(field, schemas)
             ELSE IF kind = "map" THEN buildMapSchema(field, schemas)
             ELSE IF isStruct(field) THEN buildStructSchema(field, schemas)
             ELSE Built(NilSchema, <<field, " was not a valid type">>, schemas)
        ELSE Built(BasicTypeSchema[kind], <<>>, schemas)

\* ------------------------------------------------------------------------
\* JSONSerializer
\* ------------------------------------------------------------------------

\* JSONSerializer.ToString: nothing for a nil value of a nillable kind, JSON
\* for a marshalling type, fmt.Sprint otherwise
SerializerToString(result, resultType) ==
    IF ~isNillableType(result.kind) \/ ~result.isNil
    THEN IF isMarshallingType(resultType)
            \/ (resultType = "interface" /\ isMarshallingType(result.kind))
         THEN Marshal(result)
         ELSE Sprint(result)
    ELSE <<>>

\* JSONSerializer.ToString with the schema and the components it is passed:
\* the text and the error it returns, <<>> for nil
ToStringWith(result, resultType, schema, schemas) ==
    [str |-> SerializerToString(result, resultType), err |-> <<>>]

\* JSONSerializer.FromString: convertArg, then the validation of what it
\* gave against the schema when one is passed
FromString(param, fieldType, schema, schemas) ==
    LET c == convertArg(fieldType, param)
        err == validateAgainstSchema(c.value, schema, schemas)
    IN  IF ~c.ok THEN c
        ELSE IF schema # NilSchema /\ err # <<>> THEN Converted(FALSE, Invalid, err)
        ELSE c

\* ------------------------------------------------------------------------
\* Construction of a ContractFunction from a method
\* ------------------------------------------------------------------------

\* a reflect.Method: its name ("" for a plain func), the types of its
\* parameters after the receiver and of its results, and the function
Method(name, in, out, function) == [isNil |-> FALSE, name |-> name, in |-> in, out |-> out, function |-> function]

\* no function set (a nil interface{})
NoMethod == [isNil |-> TRUE, name |-> "", in |-> <<>>, out |-> <<>>, function |-> Function("", "fixed", <<>>, FALSE)]

\* typeMatchesInterface(toMatch, iface): <<>> when the type has the methods
\* the interface declares, else the first method it lacks
typeMatchesInterface(toMatch, iface) ==
    IF iface = "internal.myInterface" THEN <<"Missing function SomeFunction">>
    ELSE <<>>

methodName(typeMethod) == IF typeMethod.name = "" THEN "Function" ELSE typeMethod.name

\* the pass of the loop that asks at every position whether an interface
\* is met by the context
ParamOutcomeOfAnywhere(typeMethod, contextHandlerType, j, typeError) ==
    LET inType == typeMethod.in[j]
        kind == reflectTypes[inType].kind
        matches == inType # contextHandlerType /\ typeError # <<>> /\ kind = "interface"
        mismatch == IF matches THEN typeMatchesInterface(contextHandlerType, inType) ELSE <<>>
        isCtx == inType = contextHandlerType \/ (matches /\ mismatch = <<>>)
    IN  IF matches /\ mismatch # <<>>
        THEN [err |-> <<methodName(typeMethod),
                        " contains invalid transaction context interface type. Set transaction context for contract does not meet interface used in method.",
                        " ">> \o mismatch, ctx |-> FALSE]
        ELSE IF typeError # <<>> /\ ~isCtx
        THEN [err |-> <<methodName(typeMethod), " contains invalid parameter type. ">> \o typeError,
              ctx |-> FALSE]
        ELSE IF j # 1 /\ isCtx
        THEN [err |-> <<"Functions requiring the TransactionContext must require it as the first parameter. ",
                        methodName(typeMethod), " takes it in as parameter ">> \o Numerals[j - 1],
              ctx |-> TRUE]
        ELSE [err |-> <<>>, ctx |-> isCtx]

\* what one pass of the loop of methodToContractFunctionParams makes of
\* parameter j, given the error typeIsValid returned for its type: an error,
\* the context, or a field
ParamOutcomeOf(typeMethod, contextHandlerType, j, typeError) ==
    LET inType == typeMethod.in[j]
        kind == reflectTypes[inType].kind
        matches == inType # contextHandlerType /\ typeError # <<>> /\ j = 1 /\ kind = "interface"
        mismatch == IF matches THEN typeMatchesInterface(contextHandlerType, inType) ELSE <<>>
        isCtx == inType = contextHandlerType \/ (matches /\ mismatch = <<>>)
    IN  IF matches /\ mismatch # <<>>
        THEN [err |-> <<methodName(typeMethod),
                        " contains invalid transaction context interface type. Set transaction context for contract does not meet interface used in method.",
                        " ">> \o mismatch, ctx |-> FALSE]
        ELSE IF typeError # <<>> /\ ~isCtx
        THEN [err |-> <<methodName(typeMethod), " contains invalid parameter type. ">> \o typeError,
              ctx |-> FALSE]
        ELSE IF j # 1 /\ isCtx
        THEN [err |-> <<"Functions requiring the TransactionContext must require it as the first parameter. ",
                        methodName(typeMethod), " takes it in as parameter ">> \o Numerals[j - 1],
              ctx |-> TRUE]
        ELSE [err |-> <<>>, ctx |-> isCtx]

\* typeError := typeIsValid(inType, nil), and what the loop makes of it
ParamOutcome(typeMethod, contextHandlerType, j) ==
    ParamOutcomeOf(typeMethod, contextHandlerType, j, typeIsValid(typeMethod.in[j], {}))

Parsed(params, returns, err) == [params |-> params, returns |-> returns, err |-> err]

\* the loop of methodToContractFunctionParams over the outcomes of the
\* parameters: the first error, or the context and the fields
ParamsOf(typeMethod, outcomes) ==
    LET n == Len(typeMethod.in)
        bad == {j \in 1..n : outcomes[j].err # <<>>}
        first == CHOOSE j \in bad : \A k \in bad : j <= k
        usesCtx == \E j \in 1..n : outcomes[j].ctx
    IN  IF bad # {}
        THEN [err |-> outcomes[first].err,
              params |-> contractFunctionParams("nil", <<>>)]
        ELSE [err |-> <<>>,
              params |-> contractFunctionParams(
                             IF usesCtx THEN "ctx" ELSE "nil",
                             SubSeq(typeMethod.in, IF usesCtx THEN 2 ELSE 1, n))]

methodToContractFunctionParams(typeMethod, contextHandlerType) ==
    ParamsOf(typeMethod,
             [j \in 1..Len(typeMethod.in) |-> ParamOutcome(typeMethod, contextHandlerType, j)])

\* methodToContractFunctionReturns that lets the first of two returns be
\* what a single return may be
methodToContractFunctionReturnsLenient(typeMethod) ==
    LET numOut == Len(typeMethod.out)
        name == methodName(typeMethod)
    IN  IF numOut > 2
        THEN [err |-> <<"Functions may only return a maximum of two values. ", name, " returns ">>
                      \o Numerals[numOut],
              returns |-> Returns("nil", FALSE)]
        ELSE IF numOut = 1
        THEN LET typeError == typeIsValid(typeMethod.out[1], {"error"})
             IN  IF typeError # <<>>
                 THEN [err |-> <<name, " contains invalid single return type. ">> \o typeError,
                       returns |-> Returns("nil", FALSE)]
                 ELSE IF typeMethod.out[1] = "error"
                 THEN [err |-> <<>>, returns |-> Returns("nil", TRUE)]
                 ELSE [err |-> <<>>, returns |-> Returns(typeMethod.out[1], FALSE)]
        ELSE IF numOut = 2
        THEN LET firstTypeError == typeIsValid(typeMethod.out[1], {"error"})
             IN  IF firstTypeError # <<>>
                 THEN [err |-> <<name, " contains invalid first return type. ">> \o firstTypeError,
                       returns |-> Returns("nil", FALSE)]
                 ELSE IF typeMethod.out[2] # "error"
                 THEN [err |-> <<name, " contains invalid second return type. Type ", typeMethod.out[2],
                                 " is not valid. Expected error">>,
                       returns |-> Returns("nil", FALSE)]
                 ELSE [err |-> <<>>, returns |-> Returns(typeMethod.out[1], TRUE)]
        ELSE [err |-> <<>>, returns |-> Returns("nil", FALSE)]

methodToContractFunctionReturns(typeMethod) ==
    LET numOut == Len(typeMethod.out)
        name == methodName(typeMethod)
    IN  IF numOut > 2
        THEN [err |-> <<"Functions may only return a maximum of two values. ", name, " returns ">>
                      \o Numerals[numOut],
              returns |-> Returns("nil", FALSE)]
        ELSE IF numOut = 1
        THEN LET typeError == typeIsValid(typeMethod.out[1], {"error"})
             IN  IF typeError # <<>>
                 THEN [err |-> <<name, " contains invalid single return type. ">> \o typeError,
                       returns |-> Returns("nil", FALSE)]
                 ELSE IF typeMethod.out[1] = "error"
                 THEN [err |-> <<>>, returns |-> Returns("nil", TRUE)]
                 ELSE [err |-> <<>>, returns |-> Returns(typeMethod.out[1], FALSE)]
        ELSE IF numOut = 2
        THEN LET firstTypeError == typeIsValid(typeMethod.out[1], {})
             IN  IF firstTypeError # <<>>
                 THEN [err |-> <<name, " contains invalid first return type. ">> \o firstTypeError,
                       returns |-> Returns("nil", FALSE)]
                 ELSE IF typeMethod.out[2] # "error"
                 THEN [err |-> <<name, " contains invalid second return type. Type ", typeMethod.out[2],
                                 " is not valid. Expected error">>,
                       returns |-> Returns("nil", FALSE)]
                 ELSE [err |-> <<>>, returns |-> Returns(typeMethod.out[1], TRUE)]
        ELSE [err |-> <<>>, returns |-> Returns("nil", FALSE)]

\* parseMethod, once the parameters and the returns are looked at: the
\* error of the parameters before that of the returns
ParsedOf(myContractFnParams, myContractFnReturns) ==
    IF myContractFnParams.err # <<>>
    THEN Parsed(contractFunctionParams("nil", <<>>), Returns("nil", FALSE), myContractFnParams.err)
    ELSE IF myContractFnReturns.err # <<>>
    THEN Parsed(contractFunctionParams("nil", <<>>), Returns("nil", FALSE), myContractFnReturns.err)
    ELSE Parsed(myContractFnParams.params, myContractFnReturns.returns, <<>>)

parseMethod(typeMethod, contextHandlerType) ==
    ParsedOf(methodToContractFunctionParams(typeMethod, contextHandlerType),
             methodToContractFunctionReturns(typeMethod))

CallTypeSubmit == "submit"

CallTypeEvaluate == "evaluate"

\* newContractFunction that makes every function a submit transaction
newContractFunctionSubmit(fnValue, callType, paramDetails, returnDetails) ==
    [callType |-> CallTypeSubmit] @@ ContractFunction(fnValue, "na", paramDetails, returnDetails)

\* newContractFunction: the ContractFunction with its callType
newContractFunction(fnValue, callType, paramDetails, returnDetails) ==
    [callType |-> callType] @@ ContractFunction(fnValue, "na", paramDetails, returnDetails)

Constructed(cf, err) == [cf |-> cf, err |-> err]

\* NewContractFunctionFromReflect, once the method is parsed
FromParsed(typeMethod, callType, p) ==
    IF p.err # <<>> THEN Constructed(NoHandler, p.err)
    ELSE Constructed(newContractFunction(typeMethod.function, callType, p.params, p.returns), <<>>)

NewContractFunctionFromReflect(typeMethod, callType, contextHandlerType) ==
    FromParsed(typeMethod, callType, parseMethod(typeMethod, contextHandlerType))

NewContractFunctionFromFunc(fn, callType, contextHandlerType) ==
    NewContractFunctionFromReflect([fn EXCEPT !.name = ""], callType, contextHandlerType)

\* ------------------------------------------------------------------------
\* CreateNewChaincode and addContract
\* ------------------------------------------------------------------------

\* the methods every contract has of the Contract it embeds, as reflect
\* lists them (by name)
ciGetters ==
    <<Method("GetAfterTransaction", <<>>, <<"interface {}">>, Function("GetAfterTransaction", "fixed", <<>>, FALSE)),
      Method("GetBeforeTransaction", <<>>, <<"interface {}">>, Function("GetBeforeTransaction", "fixed", <<>>, FALSE)),
      Method("GetIgnoredFunctions", <<>>, <<"[]string">>, Function("GetIgnoredFunctions", "fixed", <<>>, FALSE)),
      Method("GetName", <<>>, <<"string">>, Function("GetName", "fixed", <<>>, FALSE)),
      Method("GetTransactionContextHandler", <<>>, <<"contractapi.SettableTransactionContextInterface">>,
             Function("GetTransactionContextHandler", "fixed", <<>>, FALSE)),
      Method("GetUnknownTransaction", <<>>, <<"interface {}">>, Function("GetUnknownTransaction", "fixed", <<>>, FALSE)),
      Method("GetVersion", <<>>, <<"string">>, Function("GetVersion", "fixed", <<>>, FALSE))>>

ciSetters ==
    <<Method("SetAfterTransaction", <<"interface {}">>, <<>>, Function("SetAfterTransaction", "fixed", <<>>, FALSE)),
      Method("SetBeforeTransaction", <<"interface {}">>, <<>>, Function("SetBeforeTransaction", "fixed", <<>>, FALSE)),
      Method("SetName", <<"string">>, <<>>, Function("SetName", "fixed", <<>>, FALSE)),
      Method("SetTransactionContextHandler", <<"contractapi.SettableTransactionContextInterface">>, <<>>,
             Function("SetTransactionContextHandler", "fixed", <<>>, FALSE)),
      Method("SetUnknownTransaction", <<"interface {}">>, <<>>, Function("SetUnknownTransaction", "fixed", <<>>, FALSE)),
      Method("SetVersion", <<"string">>, <<>>, Function("SetVersion", "fixed", <<>>, FALSE))>>

\* getCiMethods(): the names of the methods of ContractInterface
getCiMethods == {ciGetters[i].name : i \in DOMAIN ciGetters}

\* Contract.GetIgnoredFunctions(): the Set methods of Contract
GetIgnoredFunctions == {ciSetters[i].name : i \in DOMAIN ciSetters}

\* a contract passed to CreateNewChaincode: the name of its type and the
\* name set (<<>>: none), the version set, its own methods (by name, before
\* those of Contract), its evaluate transactions and the functions set as
\* its transaction handlers
ContractInterface(typeName, name, version, methods, evaluate, unknown, before, after) ==
    [typeName |-> typeName, name |-> name, version |-> version,
     methods |-> methods \o ciGetters \o ciSetters, evaluate |-> evaluate,
     unknownTransaction |-> unknown, beforeTransaction |-> before, afterTransaction |-> after]

ReturnsStringMethod == Method("ReturnsString", <<>>, <<"string">>, ReturnsString("na").function)

BadMethod == Method("BadMethod", <<>>, <<"complex64">>, Function("BadMethod", "fixed", <<>>, FALSE))

Handler == Method("Handler", <<>>, <<>>, Function("Handler", "fixed", <<>>, FALSE))

\* new(myContract), with a name, a version and transaction handlers set
NewMyContract(name, version, unknown, before, after) ==
    ContractInterface("myContract", name, version, <<ReturnsStringMethod>>, {}, unknown, before, after)

\* new(evaluateContract)
NewEvaluateContract ==
    ContractInterface("evaluateContract", <<>>, <<>>, <<ReturnsStringMethod>>, {"ReturnsString"},
                      NoMethod, NoMethod, NoMethod)

\* new(badContract)
NewBadContract(name) ==
    ContractInterface("badContract", name, <<>>, <<BadMethod>>, {}, NoMethod, NoMethod, NoMethod)

\* new(SystemContract), named SystemContractName
NewSystemContract ==
    ContractInterface("SystemContract", SystemContractName, <<>>,
                      <<Method("GetMetadata", <<>>, <<"string">>,
                               Function("GetMetadata", "fixed", <<StringValue(<<>>)>>, FALSE))>>,
                      {"GetMetadata"}, NoMethod, NoMethod, NoMethod)

\* NewTransactionHandler, once the function is made a contract function: it
\* may take, besides the context, nothing (an after transaction: at most
\* one value)
HandlerOf(c, handlesType) ==
    IF c.err # <<>> THEN c
    ELSE IF Len(c.cf.params.fields) > (IF handlesType = "after" THEN 1 ELSE 0)
    THEN Constructed(NoHandler,
                     <<"Transaction handler arguments does not match requirements for ",
                       handlesType, " transaction">>)
    ELSE Constructed([c.cf EXCEPT !.handlesType = handlesType], <<>>)

\* NewTransactionHandler: the handler of a function that parses as a
\* contract function
NewTransactionHandler(fn, contextHandlerType, handlesType) ==
    HandlerOf(NewContractFunctionFromFunc(fn, "na", contextHandlerType), handlesType)

\* ContractChaincode{}
BlankChaincode == [defaultContract |-> <<>>, contracts |-> <<>>, metadata |-> <<>>]

Added(chaincode, err) == [cc |-> chaincode, err |-> err]

\* the functions addContract makes of the methods from method i on: the
\* first error, or the map of the functions by name
RECURSIVE AddFunctions(_, _, _, _)

\* method i made the contract function c: its error, or on to the next
AddFunction(contract, excludeFuncs, i, made, c) ==
    IF c.err # <<>> THEN Constructed(<<>>, c.err)
    ELSE AddFunctions(contract, excludeFuncs, i + 1,
                      made @@ (<<contract.methods[i].name>> :> c.cf))

AddFunctions(contract, excludeFuncs, i, made) ==
    IF i > Len(contract.methods) THEN Constructed(made, <<>>)
    ELSE LET m == contract.methods[i]
             callType == IF m.name \in contract.evaluate THEN CallTypeEvaluate ELSE CallTypeSubmit
         IN  IF m.name \in excludeFuncs THEN AddFunctions(contract, excludeFuncs, i + 1, made)
             ELSE AddFunction(contract, excludeFuncs, i, made,
                              NewContractFunctionFromReflect(m, callType,
                                                             "*contractapi.TransactionContext"))

\* contractExists that never finds the name taken
contractExistsNever(chaincode, name) == FALSE

\* _, ok := cc.contracts[ns]
contractExists(chaincode, name) == name \in DOMAIN chaincode.contracts

\* the handler addContract makes of a function set on the contract: none
\* of a nil one
HandlerFor(fn, handlesType) ==
    IF fn.isNil THEN Constructed(NoHandler, <<>>)
    ELSE NewTransactionHandler(fn, "*contractapi.TransactionContext", handlesType)

\* addContract, once the handlers ut, bt, at and the functions fs are made:
\* the chaincode it leaves and the error it returns (<<>>: nil)
addContractOf(chaincode, contract, ut, bt, at, fs) ==
    LET name == IF contract.name = <<>> THEN <<contract.typeName>> ELSE contract.name
        ccn == [Contract(fs.cf, bt.cf, ut.cf, at.cf, "TransactionContext")
                    EXCEPT !.version = IF contract.version = <<>> THEN <<"latest">>
                                       ELSE contract.version]
    IN  IF contractExists(chaincode, name)
        THEN Added(chaincode,
                   <<"Multiple contracts being merged into chaincode with name ">> \o name)
        ELSE IF ut.err # <<>> THEN Added(chaincode, ut.err)
        ELSE IF bt.err # <<>> THEN Added(chaincode, bt.err)
        ELSE IF at.err # <<>> THEN Added(chaincode, at.err)
        ELSE IF fs.err # <<>> THEN Added(chaincode, fs.err)
        ELSE Added([chaincode EXCEPT
                        !.contracts = (name :> ccn) @@ @,
                        !.defaultContract = IF @ = <<>> THEN name ELSE @],
                   <<>>)

\* cc.addContract(contract, excludeFuncs)
addContract(chaincode, contract, excludeFuncs) ==
    addContractOf(chaincode, contract,
                  HandlerFor(contract.unknownTransaction, "unknown"),
                  HandlerFor(contract.beforeTransaction, "before"),
                  HandlerFor(contract.afterTransaction, "after"),
                  AddFunctions(contract, excludeFuncs, 1, <<>>))

\* the names json.Marshal meets as keys of the maps of the metadata, in the
\* order it writes them
SortedNames ==
    <<"BadMethod", "GetAfterTransaction", "GetBeforeTransaction", "GetIgnoredFunctions",
      "GetMetadata", "GetName", "GetTransactionContextHandler", "GetUnknownTransaction",
      "GetVersion", "ReturnsString", "SetAfterTransaction", "SetBeforeTransaction", "SetName",
      "SetTransactionContextHandler", "SetUnknownTransaction", "SetVersion",
      "badContract", "customname", "evaluateContract", "myContract", "org.hyperledger.fabric">>

\* the names of S (one-token texts) in that order
RECURSIVE Sorted(_, _)
Sorted(S, i) ==
    IF i > Len(SortedNames) THEN <<>>
    ELSE (IF <<SortedNames[i]>> \in S THEN <<SortedNames[i]>> ELSE <<>>) \o Sorted(S, i + 1)

\* cc.reflectMetadata(): for every contract its version and, for every
\* function, its tag
reflectMetadata(chaincode) ==
    [c \in DOMAIN chaincode.contracts |->
        [version |-> chaincode.contracts[c].version,
         transactions |-> [f \in DOMAIN chaincode.contracts[c].functions |->
                              chaincode.contracts[c].functions[f].callType]]]

RECURSIVE MarshalTransactions(_, _)
MarshalTransactions(transactions, names) ==
    IF names = <<>> THEN <<>>
    ELSE <<"{\"tag\":[\"", transactions[<<Head(names)>>], "\"],\"name\":\"", Head(names), "\"}">>
         \o MarshalTransactions(transactions, Tail(names))

RECURSIVE MarshalContracts(_, _)
MarshalContracts(metadata, names) ==
    IF names = <<>> THEN <<>>
    ELSE <<"\"", Head(names), "\":{\"name\":\"", Head(names), "\",\"version\":\"">>
         \o metadata[<<Head(names)>>].version \o <<"\",\"transactions\":[">>
         \o MarshalTransactions(metadata[<<Head(names)>>].transactions,
                                Sorted(DOMAIN metadata[<<Head(names)>>].transactions, 1))
         \o <<"]}">> \o MarshalContracts(metadata, Tail(names))

\* json.Marshal(cc.metadata)
metadataJSON(metadata) ==
    <<"{\"contracts\":{">> \o MarshalContracts(metadata, Sorted(DOMAIN metadata, 1)) \o <<"}}">>

\* sysC.setMetadata(metadata): what GetMetadata of the system contract in the
\* chaincode returns from now on
setMetadata(chaincode, metadata) ==
    IF SystemContractName \in DOMAIN chaincode.contracts
    THEN [chaincode EXCEPT
             !.contracts[SystemContractName].functions[<<"GetMetadata">>].function.vals =
                 <<StringValue(metadata)>>]
    ELSE chaincode

\* the chaincode with the metadata reflected, and the system contract
\* handed the JSON of it
WithMetadata(chaincode, reflected) ==
    setMetadata([chaincode EXCEPT !.metadata = reflected], metadataJSON(reflected))

\* cc.metadata = cc.reflectMetadata(), of the chaincode as it is
Reflected(chaincode) == WithMetadata(chaincode, reflectMetadata(chaincode))

\* the end of CreateNewChaincode that reflects the metadata before the
\* system contract is added
addSystemContractLate(chaincode) ==
    WithMetadata(addContract(chaincode, NewSystemContract, getCiMethods \cup GetIgnoredFunctions).cc,
                 reflectMetadata(chaincode))

\* the end of CreateNewChaincode, once every contract passed is added: the
\* system contract is added, the metadata reflected and handed to it
addSystemContract(chaincode) ==
    Reflected(addContract(chaincode, NewSystemContract, getCiMethods \cup GetIgnoredFunctions).cc)

\* ------------------------------------------------------------------------
\* ContractChaincodeMetadata.Append
\* ------------------------------------------------------------------------

\* spec.Info, by its title and version
Info(title, version) == [Title |-> title, Version |-> version]

\* spec.Info{}
BlankInfo == Info(<<>>, <<>>)

\* a map that was never made
NilMap == [nil |-> TRUE, entries |-> <<>>]

\* a map holding the entries
MakeMap(entries) == [nil |-> FALSE, entries |-> entries]

\* ContractMetadata
ContractMetadata(name, version) == [Name |-> name, Version |-> version]

\* ComponentMetadata
ComponentMetadata(schemas) == [Schemas |-> schemas]

\* ContractChaincodeMetadata
ContractChaincodeMetadata(info, contracts, comps) ==
    [Info |-> info, Contracts |-> contracts, Components |-> comps]

\* for key, value := range source { own[key] = value }
CopyEntries(own, source) ==
    [key \in DOMAIN own \cup DOMAIN source |->
        IF key \in DOMAIN source THEN source[key] ELSE own[key]]

\* an Append that copies the contracts of the source whatever the
\* receiver holds
AppendMerging(ccm, source) ==
    ContractChaincodeMetadata(
        IF ccm.Info = BlankInfo THEN source.Info ELSE ccm.Info,
        MakeMap(CopyEntries(ccm.Contracts.entries, source.Contracts.entries)),
        IF ccm.Components = ComponentMetadata(NilMap) THEN source.Components ELSE ccm.Components)

\* ccm.Append(source): the receiver afterwards
MetadataAppend(ccm, source) ==
    ContractChaincodeMetadata(
        IF ccm.Info = BlankInfo THEN source.Info ELSE ccm.Info,
        IF DOMAIN ccm.Contracts.entries = {}
        THEN MakeMap(CopyEntries(ccm.Contracts.entries, source.Contracts.entries))
        ELSE ccm.Contracts,
        IF ccm.Components = ComponentMetadata(NilMap) THEN source.Components ELSE ccm.Components)

\* ------------------------------------------------------------------------
\* State
\* ------------------------------------------------------------------------

VARIABLES
    cc,        \* the ContractChaincode CreateNewChaincode returned
    built,     \* (history) cc as it was when construction finished
    requests,  \* the invocations the peer may deliver
    active,    \* the invocations that may be in flight
    heap,      \* the context instances, by address
    pc,        \* where each invocation is: idle, invoke, before, call, after, done
    stub,      \* the stub of each invocation
    ns,        \* the contract name Invoke resolved
    fn,        \* the function name Invoke resolved
    ctx,       \* the address of the context Invoke created (0: none)
    ret,       \* successReturn, successIFace, errorReturn of the transaction
    response,  \* the peer.Response returned
    called,    \* (history) the calls made for the invocation, in order
    made,      \* (history) the number of contexts created for the invocation
    sent,      \* (history) the number of responses returned for the invocation
    reg,       \* CreateNewChaincode: the contracts passed and the chaincode it builds
    arg,       \* the arguments of the function applied
    out,       \* what the function applied returned
    components \* metadata.ComponentMetadata: the schemas of the components, by name

vars == <<cc, built, requests, active, heap, pc, stub, ns, fn, ctx, ret, response, called, made, sent,
          reg, arg, out, components>>

\* the state of the invocations
invocations == <<requests, active, heap, pc, stub, ns, fn, ctx, ret, response, called, made, sent>>

\* the state the functions outside Invoke are applied on
functions == <<reg, arg, out, components>>

NoReturn == Handled(<<>>, Invalid, NilError)

NoResponse == [status |-> 0, payload |-> <<>>, message |-> <<>>]

\* shim.Success(payload)
Success(payload) == [status |-> 200, payload |-> payload, message |-> <<>>]

\* shim.Error(msg)
Error(msg) == [status |-> 500, payload |-> <<>>, message |-> msg]

NoRegistration == [pc |-> "none"]

\* no function outside Invoke is being applied
NoFunction ==
    /\ reg = NoRegistration
    /\ arg = <<>>
    /\ out = <<>>
    /\ components = <<>>

\* the invocation-local state before a stub is delivered
Idle ==
    /\ heap = [i \in Dispatches |-> ZeroContext]
    /\ pc = [d \in Dispatches |-> "idle"]
    /\ stub = [d \in Dispatches |-> NoStub]
    /\ ns = [d \in Dispatches |-> <<>>]
    /\ fn = [d \in Dispatches |-> <<>>]
    /\ ctx = [d \in Dispatches |-> 0]
    /\ ret = [d \in Dispatches |-> NoReturn]
    /\ response = [d \in Dispatches |-> NoResponse]
    /\ called = [d \in Dispatches |-> <<>>]
    /\ made = [d \in Dispatches |-> 0]
    /\ sent = [d \in Dispatches |-> 0]

\* one invocation at a time, on every chaincode
Init ==
    /\ cc \in Chaincodes
    /\ built = cc
    /\ requests = Requests
    /\ active = {1}
    /\ Idle
    /\ NoFunction

\* invocations in parallel, on the chaincodes whose handlers use the context
InitParallel ==
    /\ cc \in ParallelChaincodes
    /\ built = cc
    /\ requests = {Stub(goodName \o <<":">> \o n, <<p>>) :
                      n \in {<<"SetValInCustomContext">>, <<"GetValInCustomContext">>,
                             <<"somebadfunctionname">>},
                      p \in {standardValue, <<"a">>}}
                  \cup {Stub(<<"somebadname", ":", "ReturnsString">>, <<standardValue>>)}
    /\ active = Dispatches
    /\ Idle
    /\ NoFunction

\* two invocations side by side, of the same functions with and without
\* the contract's name
InitDefault ==
    /\ cc \in {ContractChaincode(def, Contract(goodFunctions, b, u, NoHandler, "customContext")) :
                  def \in {goodName, myName},
                  b \in {NoHandler, SetValInCustomContext("before")},
                  u \in {NoHandler, ReturnsString("unknown")}}
    /\ built = cc
    /\ requests = {Stub(c \o n, <<standardValue>>) :
                      c \in {<<>>, goodName \o <<":">>, myName \o <<":">>},
                      n \in {<<"ReturnsString">>, <<"GetValInCustomContext">>,
                             <<"somebadfunctionname">>}}
    /\ active = {1, 2}
    /\ Idle
    /\ NoFunction

\* ------------------------------------------------------------------------
\* Invoke
\* ------------------------------------------------------------------------

\* ParseCommand that takes a command without a colon for a function of no
\* contract
ParseCommandNoDefault(nsFcn, chaincode) ==
    LET colons == {i \in 1..Len(nsFcn) : nsFcn[i] = ":"}
        li == IF colons = {} THEN 0 ELSE CHOOSE i \in colons : \A j \in colons : j <= i
    IN  [ns |-> SubSeq(nsFcn, 1, li - 1), fn |-> SubSeq(nsFcn, li + 1, Len(nsFcn))]

\* ParseCommand that looks every function up in the default contract
ParseCommandAlwaysDefault(nsFcn, chaincode) ==
    LET colons == {i \in 1..Len(nsFcn) : nsFcn[i] = ":"}
        li == IF colons = {} THEN 0 ELSE CHOOSE i \in colons : \A j \in colons : j <= i
    IN  [ns |-> chaincode.defaultContract, fn |-> SubSeq(nsFcn, li + 1, Len(nsFcn))]

\* nsFcn split at its colon: the contract name before it and the function
\* name after it, or the default contract when there is no colon
ParseCommand(nsFcn, chaincode) ==
    LET colons == {i \in 1..Len(nsFcn) : nsFcn[i] = ":"}
        li == IF colons = {} THEN 0 ELSE CHOOSE i \in colons : \A j \in colons : j <= i
    IN  IF li = 0
        THEN [ns |-> chaincode.defaultContract, fn |-> nsFcn]
        ELSE [ns |-> SubSeq(nsFcn, 1, li - 1), fn |-> SubSeq(nsFcn, li + 1, Len(nsFcn))]

\* NewContext that hands every invocation the one instance of the contract
NewContextShared(h) == 1

\* reflect.New(transactionContextHandler): an instance that is no live one
NewContext(h) == CHOOSE i \in Dispatches : ~h[i].live /\ \A j \in Dispatches : ~h[j].live => i <= j

\* the peer delivers an invocation
MockInvoke(d) ==
    /\ d \in active
    /\ pc[d] = "idle"
    /\ \E r \in requests : stub' = [stub EXCEPT ![d] = r]
    /\ pc' = [pc EXCEPT ![d] = "invoke"]
    /\ UNCHANGED functions
    /\ UNCHANGED <<cc, built, requests, active, heap, ns, fn, ctx, ret, response, called, made, sent>>

\* Invoke, up to the creation of the transaction context
Invoke(d) ==
    /\ pc[d] = "invoke"
    /\ LET p == ParseCommand(stub[d].function, cc)
       IN  /\ ns' = [ns EXCEPT ![d] = p.ns]
           /\ fn' = [fn EXCEPT ![d] = p.fn]
           /\ IF p.ns \notin DOMAIN cc.contracts
              THEN /\ response' = [response EXCEPT ![d] =
                                      Error(<<"Contract not found with name ">> \o p.ns)]
                   /\ sent' = [sent EXCEPT ![d] = @ + 1]
                   /\ pc' = [pc EXCEPT ![d] = "done"]
                   /\ UNCHANGED <<heap, ctx, made>>
              ELSE LET id == NewContext(heap)
                   IN  /\ heap' = [heap EXCEPT ![id] = SetStub([ZeroContext EXCEPT !.live = TRUE], d)]
                       /\ ctx' = [ctx EXCEPT ![d] = id]
                       /\ made' = [made EXCEPT ![d] = @ + 1]
                       /\ pc' = [pc EXCEPT ![d] = "before"]
                       /\ UNCHANGED <<response, sent>>
    /\ UNCHANGED functions
    /\ UNCHANGED <<cc, built, requests, active, stub, ret, called>>

\* the before transaction of the contract, when it has one
BeforeTransaction(d) ==
    /\ pc[d] = "before"
    /\ LET beforeTransaction == cc.contracts[ns[d]].beforeTransaction
           r == HandlerCall(beforeTransaction, ctx[d], Invalid, stub[d].params, d, heap)
       IN  IF beforeTransaction.isNil
           THEN /\ pc' = [pc EXCEPT ![d] = "call"]
                /\ UNCHANGED <<heap, called, response, sent>>
           ELSE /\ heap' = r.heap
                /\ called' = [called EXCEPT ![d] = @ \o r.entries]
                /\ IF ~r.res.err.isNil
                   THEN /\ response' = [response EXCEPT ![d] = Error(r.res.err.s)]
                        /\ sent' = [sent EXCEPT ![d] = @ + 1]
                        /\ pc' = [pc EXCEPT ![d] = "done"]
                   ELSE /\ pc' = [pc EXCEPT ![d] = "call"]
                        /\ UNCHANGED <<response, sent>>
    /\ UNCHANGED functions
    /\ UNCHANGED <<cc, built, requests, active, stub, ns, fn, ctx, ret, made>>

\* the named transaction, or the unknown transaction when the contract has
\* no function of that name
CallTransaction(d) ==
    /\ pc[d] = "call"
    /\ LET nsContract == cc.contracts[ns[d]]
           known == fn[d] \in DOMAIN nsContract.functions
           unknownTransaction == nsContract.unknownTransaction
           r == IF known
                THEN Call(nsContract.functions[fn[d]], ctx[d],
                          cc.metadata.Contracts[ns[d]][fn[d]], cc.metadata.Components,
                          stub[d].params, d, heap)
                ELSE HandlerCall(unknownTransaction, ctx[d], Invalid, stub[d].params, d, heap)
       IN  IF ~known /\ unknownTransaction.isNil
           THEN /\ response' = [response EXCEPT ![d] =
                                   Error(<<"Function ">> \o fn[d] \o <<" not found in contract ">> \o ns[d])]
                /\ sent' = [sent EXCEPT ![d] = @ + 1]
                /\ pc' = [pc EXCEPT ![d] = "done"]
                /\ UNCHANGED <<heap, called, ret>>
           ELSE /\ heap' = r.heap
                /\ called' = [called EXCEPT ![d] = @ \o r.entries]
                /\ ret' = [ret EXCEPT ![d] = r.res]
                /\ IF ~r.res.err.isNil
                   THEN /\ response' = [response EXCEPT ![d] = Error(r.res.err.s)]
                        /\ sent' = [sent EXCEPT ![d] = @ + 1]
                        /\ pc' = [pc EXCEPT ![d] = "done"]
                   ELSE /\ pc' = [pc EXCEPT ![d] = "after"]
                        /\ UNCHANGED <<response, sent>>
    /\ UNCHANGED functions
    /\ UNCHANGED <<cc, built, requests, active, stub, ns, fn, ctx, made>>

\* the after transaction of the contract, when it has one, and the response
AfterTransaction(d) ==
    /\ pc[d] = "after"
    /\ LET afterTransaction == cc.contracts[ns[d]].afterTransaction
           r == HandlerCall(afterTransaction, ctx[d], ret[d].iface, stub[d].params, d, heap)
       IN  IF afterTransaction.isNil
           THEN /\ response' = [response EXCEPT ![d] = Success(ret[d].str)]
                /\ UNCHANGED <<heap, called>>
           ELSE /\ heap' = r.heap
                /\ called' = [called EXCEPT ![d] = @ \o r.entries]
                /\ response' = [response EXCEPT ![d] =
                                   IF ~r.res.err.isNil THEN Error(r.res.err.s)
                                   ELSE Success(ret[d].str)]
    /\ sent' = [sent EXCEPT ![d] = @ + 1]
    /\ pc' = [pc EXCEPT ![d] = "done"]
    /\ UNCHANGED functions
    /\ UNCHANGED <<cc, built, requests, active, stub, ns, fn, ctx, ret, made>>

\* the peer takes the response; nothing refers to the context any more
Collect(d) ==
    /\ pc[d] = "done"
    /\ pc' = [pc EXCEPT ![d] = "idle"]
    /\ heap' = IF ctx[d] = 0 THEN heap ELSE [heap EXCEPT ![ctx[d]] = ZeroContext]
    /\ stub' = [stub EXCEPT ![d] = NoStub]
    /\ ns' = [ns EXCEPT ![d] = <<>>]
    /\ fn' = [fn EXCEPT ![d] = <<>>]
    /\ ctx' = [ctx EXCEPT ![d] = 0]
    /\ ret' = [ret EXCEPT ![d] = NoReturn]
    /\ response' = [response EXCEPT ![d] = NoResponse]
    /\ called' = [called EXCEPT ![d] = <<>>]
    /\ made' = [made EXCEPT ![d] = 0]
    /\ sent' = [sent EXCEPT ![d] = 0]
    /\ UNCHANGED functions
    /\ UNCHANGED <<cc, built, requests, active>>

Next ==
    \E d \in Dispatches :
        \/ MockInvoke(d)
        \/ Invoke(d)
        \/ BeforeTransaction(d)
        \/ CallTransaction(d)
        \/ AfterTransaction(d)
        \/ Collect(d)

Spec == Init /\ [][Next]_vars

SpecParallel == InitParallel /\ [][Next]_vars

SpecDefault == InitDefault /\ [][Next]_vars

\* the chaincodes whose handlers return values of their own or log what
\* they are handed
HookChaincodes ==
    {ContractChaincode(goodName, Contract(goodFunctions, b, u, a, "customContext")) :
        b \in {NoHandler, logBefore("before"), ReturnsString("before")},
        u \in {NoHandler, logUnknown("unknown"), ReturnsString("unknown")},
        a \in {NoHandler, logAfter("after"), ReturnsString("after")}}

\* invocations side by side on the chaincodes of HookChaincodes
InitHooks ==
    /\ cc \in HookChaincodes
    /\ built = cc
    /\ requests = {Stub(goodName \o <<":">> \o n, p) :
                      n \in {<<"LogNamed">>, <<"ReturnsString">>, <<"ReturnsNothing">>,
                             <<"AnotherGoodMethod">>, <<"GoodMethod">>, <<"ReturnsError">>,
                             <<"somebadfunctionname">>},
                      p \in {<<standardValue>>, <<<<"a">>, standardValue>>}}
    /\ active = {1, 2}
    /\ Idle
    /\ NoFunction

SpecHooks == InitHooks /\ [][Next]_vars

\* ------------------------------------------------------------------------
\* CreateNewChaincode, contract by contract
\* ------------------------------------------------------------------------

\* the contracts CreateNewChaincode is tried on
ContractInterfaces ==
    {NewMyContract(n, v, NoMethod, NoMethod, NoMethod) :
        n \in {<<>>, <<"customname">>}, v \in {<<>>, <<"1.1.0">>}}
    \cup {NewMyContract(<<>>, <<>>, u, NoMethod, NoMethod) : u \in {Handler, BadMethod}}
    \cup {NewMyContract(<<>>, <<>>, NoMethod, b, NoMethod) : b \in {Handler, BadMethod}}
    \cup {NewMyContract(<<>>, <<>>, NoMethod, NoMethod, a) : a \in {Handler, BadMethod}}
    \cup {NewEvaluateContract, NewBadContract(<<>>), NewBadContract(<<"customname">>)}

Registration(contracts) ==
    [pc |-> "adding", contracts |-> contracts, i |-> 1, cc |-> BlankChaincode,
     prev |-> BlankChaincode, last |-> 0, err |-> <<>>]

InitCreate ==
    /\ \E n \in 0..MaxContracts :
          \E contracts \in [1..n -> ContractInterfaces] : reg = Registration(contracts)
    /\ cc = BlankChaincode
    /\ built = BlankChaincode
    /\ requests = {}
    /\ active = {}
    /\ Idle
    /\ arg = <<>>
    /\ out = <<>>
    /\ components = <<>>

\* one pass of the loop of CreateNewChaincode: the next contract is added,
\* or its error returned with a blank ContractChaincode
AddContract ==
    /\ reg.pc = "adding"
    /\ reg.i <= Len(reg.contracts)
    /\ \E r \in {addContract(reg.cc, reg.contracts[reg.i], getCiMethods \cup GetIgnoredFunctions)} :
           IF r.err # <<>>
           THEN /\ reg' = [reg EXCEPT !.pc = "returned", !.err = r.err, !.cc = r.cc, !.prev = reg.cc,
                                      !.last = reg.i]
                /\ cc' = BlankChaincode
                /\ built' = BlankChaincode
           ELSE /\ reg' = [reg EXCEPT !.i = @ + 1, !.cc = r.cc, !.prev = reg.cc, !.last = reg.i]
                /\ UNCHANGED <<cc, built>>
    /\ UNCHANGED <<arg, out, components>>
    /\ UNCHANGED invocations

\* the end of CreateNewChaincode: the ContractChaincode is returned
AddSystemContract ==
    /\ reg.pc = "adding"
    /\ reg.i > Len(reg.contracts)
    /\ \E chaincode \in {addSystemContract(reg.cc)} :
           /\ reg' = [reg EXCEPT !.pc = "returned", !.cc = chaincode, !.prev = reg.cc, !.last = 0]
           /\ cc' = chaincode
           /\ built' = chaincode
    /\ UNCHANGED <<arg, out, components>>
    /\ UNCHANGED invocations

NextCreate == AddContract \/ AddSystemContract

SpecCreate == InitCreate /\ [][NextCreate]_vars

\* ------------------------------------------------------------------------
\* The functions of the types, applied on their own
\* ------------------------------------------------------------------------

\* no chaincode is being built or invoked
NoChaincode ==
    /\ cc = BlankChaincode
    /\ built = BlankChaincode
    /\ requests = {}
    /\ active = {}
    /\ Idle
    /\ reg = NoRegistration

\* the additional types typeIsValid is called with: none for a parameter,
\* error for a return, and as TestTypeIsValid passes them a struct, an
\* array, a slice and a map that are not valid on their own
AdditionalTypes ==
    {{}, {"error"}, {"internal.BadStruct"}, {"error", "internal.BadStruct"},
     {"[1]complex64"}, {"[]complex64"}, {"map[string]complex64"}, {"error", "[]error"}}

InitTypes ==
    /\ NoChaincode
    /\ arg \in [t : TypeNames, additionalTypes : AdditionalTypes]
    /\ out = [pc |-> "call"]
    /\ components = <<>>

\* typeIsValid(t, additionalTypes)
TypeIsValid ==
    /\ out.pc = "call"
    /\ out' = [pc |-> "return", err |-> typeIsValid(arg.t, arg.additionalTypes)]
    /\ UNCHANGED <<cc, built, reg, arg, components>>
    /\ UNCHANGED invocations

NextTypes == TypeIsValid

SpecTypes == InitTypes /\ [][NextTypes]_vars

\* ------------------------------------------------------------------------
\* GetSchema, call after call on one ComponentMetadata
\* ------------------------------------------------------------------------

MaxCalls == 3

\* the types GetSchema is called with
SchemaTypes ==
    {"string", "int", "bool", "complex64", "*string", "[1]string", "[0]int", "[]string",
     "[]internal.goodStruct", "map[string]string", "internal.goodStruct", "*internal.goodStruct",
     "other.goodStruct", "internal.BadStruct", "main.Mixed", "main.Hidden", "*main.Hidden",
     "main.Tagged"}

\* (history) one call of GetSchema: the type, what it returned, and the
\* components as they were before it
SchemaCall(t, schema, err, before) == [t |-> t, schema |-> schema, err |-> err, before |-> before]

NoCall == SchemaCall("", NilSchema, <<>>, <<>>)

RECURSIVE StructsIn(_)
\* the struct types GetSchema comes to from a type: the struct itself and
\* those of the fields the loop over its fields gets to
StructsIn(t) ==
    LET T == reflectTypes[t]
        o == IF T.kind = "ptr" THEN T.elem ELSE t
        fields == reflectTypes[o].fields
        reached == {i \in 1..Len(fields) : \A j \in 1..i : IsExported(fields[j].name)}
    IN  IF T.kind \in {"array", "slice", "map"} THEN StructsIn(T.elem)
        ELSE IF isStruct(t) THEN {o} \cup UNION {StructsIn(fields[i].type) : i \in reached}
        ELSE {}

InitSchema ==
    /\ NoChaincode
    /\ arg = ""
    /\ out = [n |-> 0, last |-> NoCall, prev |-> NoCall, structs |-> {}]
    /\ components = <<>>

\* GetSchema(t, &components)
GetSchemaCall ==
    /\ out.n < MaxCalls
    /\ \E t \in SchemaTypes :
          LET r == GetSchema(t, components)
          IN  /\ arg' = t
              /\ components' = r.components
              /\ out' = [n |-> out.n + 1,
                         last |-> SchemaCall(t, r.schema, r.err, components),
                         prev |-> out.last,
                         structs |-> out.structs \cup (IF r.err = <<>> THEN StructsIn(t) ELSE {})]
    /\ UNCHANGED <<cc, built, reg>>
    /\ UNCHANGED invocations

NextSchema == GetSchemaCall

SpecSchema == InitSchema /\ [][NextSchema]_vars

\* ------------------------------------------------------------------------
\* JSONSerializer: a value to its text and back
\* ------------------------------------------------------------------------

\* the values serialized: strings, ints, and slices of strings, the nil
\* slice among them
Texts ==
    {<<>>} \cup {<<a>> : a \in {"a", "1", ","}} \cup {<<a, b>> : a, b \in {"a", "1", ","}}

Serialized ==
    {StringValue(t) : t \in Texts} \cup {IntValue(i) : i \in DOMAIN Numerals}
    \cup {SliceValue(e) : e \in JSONSlices} \cup {NilSlice}

InitSerializer ==
    /\ NoChaincode
    /\ \E v \in Serialized :
          \E schema \in {NilSchema, Schema(SchemaTypeOf(v.kind), "")} :
              arg = [v |-> v, t |-> v.kind, schema |-> schema]
    /\ out = [pc |-> "value"]
    /\ components = <<>>

\* serializer.ToString(v, t, schema, components)
ToStringCall ==
    /\ out.pc = "value"
    /\ out' = [pc |-> "text", text |-> SerializerToString(arg.v, arg.t)]
    /\ UNCHANGED <<cc, built, reg, arg, components>>
    /\ UNCHANGED invocations

\* serializer.FromString(text, t, schema, components) of the text ToString
\* returned
FromStringCall ==
    /\ out.pc = "text"
    /\ LET c == FromString(out.text, arg.t, arg.schema, {})
       IN  out' = [pc |-> "back", text |-> out.text, ok |-> c.ok, value |-> c.value, err |-> c.err]
    /\ UNCHANGED <<cc, built, reg, arg, components>>
    /\ UNCHANGED invocations

NextSerializer == ToStringCall \/ FromStringCall

SpecSerializer == InitSerializer /\ [][NextSerializer]_vars

\* ------------------------------------------------------------------------
\* Append, of one document to another
\* ------------------------------------------------------------------------

Infos ==
    {BlankInfo, Info(<<"A title">>, <<"Some version">>),
     Info(<<"An existing title">>, <<"Some existing version">>)}

ContractNames == {"some contract", "another contract"}

\* the maps of contracts: nil, empty, and every map of the names to a
\* contract of one of two versions
ContractMaps ==
    {NilMap} \cup
    {MakeMap(m) : m \in UNION {[S -> {ContractMetadata(<<"some contract">>, <<v>>) : v \in {"1", "2"}}] :
                                  S \in SUBSET ContractNames}}

\* the components: none, a map of no schema, a map of one
ComponentMaps ==
    {ComponentMetadata(NilMap), ComponentMetadata(MakeMap(<<>>))} \cup
    {ComponentMetadata(MakeMap([k \in {n} |-> ObjectMetadata(<<>>, <<>>)])) :
        n \in {"some component", "another component"}}

Documents ==
    {ContractChaincodeMetadata(i, c, s) : i \in Infos, c \in ContractMaps, s \in ComponentMaps}

InitAppend ==
    /\ NoChaincode
    /\ arg \in [ccm : Documents, source : Documents]
    /\ out = [pc |-> "call"]
    /\ components = <<>>

\* ccm.Append(source)
AppendCall ==
    /\ out.pc = "call"
    /\ out' = [pc |-> "return", ccm |-> MetadataAppend(arg.ccm, arg.source)]
    /\ UNCHANGED <<cc, built, reg, arg, components>>
    /\ UNCHANGED invocations

NextAppend == AppendCall

SpecAppend == InitAppend /\ [][NextAppend]_vars

\* ------------------------------------------------------------------------
\* methodToContractFunctionReturns, of the methods of every return list
\* ------------------------------------------------------------------------

\* the most values a method looked at returns
MaxOut == 3

ReturnTypes == {"string", "error", "[]string", "[]error", "internal.goodStruct", "internal.BadStruct"}

\* the sequences over S of at most n elements
SeqsUpTo(S, n) == UNION {[1..k -> S] : k \in 0..n}

InitReturns ==
    /\ NoChaincode
    /\ \E name \in {"", "SomeMethod"} :
          \E outs \in SeqsUpTo(ReturnTypes, MaxOut) :
              arg = Method(name, <<>>, outs, Function(name, "fixed", <<>>, FALSE))
    /\ out = [pc |-> "call"]
    /\ components = <<>>

\* methodToContractFunctionReturns(typeMethod)
MethodToContractFunctionReturns ==
    /\ out.pc = "call"
    /\ \E r \in {methodToContractFunctionReturns(arg)} :
          out' = [pc |-> "return", returns |-> r.returns, err |-> r.err]
    /\ UNCHANGED <<cc, built, reg, arg, components>>
    /\ UNCHANGED invocations

NextReturns == MethodToContractFunctionReturns

SpecReturns == InitReturns /\ [][NextReturns]_vars

\* ------------------------------------------------------------------------
\* methodToContractFunctionParams, of the methods of every parameter list
\* ------------------------------------------------------------------------

\* the most parameters a method looked at takes after the receiver
MaxIn == 3

\* the types of the parameters: a basic type, a type no parameter may have,
\* the two context types, an interface they meet and one they do not
ParamTypes ==
    {"string", "complex64", "*contractapi.TransactionContext", "*contractapi.customContext",
     "contractapi.TransactionContextInterface", "internal.myInterface"}

ContextHandlerTypes == {"*contractapi.TransactionContext", "*contractapi.customContext"}

InitParams ==
    /\ NoChaincode
    /\ \E name \in {"", "SomeMethod"} :
          \E ins \in SeqsUpTo(ParamTypes, MaxIn) :
              \E contextHandlerType \in ContextHandlerTypes :
                  arg = [typeMethod |-> Method(name, ins, <<>>, Function(name, "fixed", <<>>, FALSE)),
                         contextHandlerType |-> contextHandlerType]
    /\ out = [pc |-> "call"]
    /\ components = <<>>

\* methodToContractFunctionParams(typeMethod, contextHandlerType)
MethodToContractFunctionParams ==
    /\ out.pc = "call"
    /\ \E r \in {methodToContractFunctionParams(arg.typeMethod, arg.contextHandlerType)} :
          out' = [pc |-> "return", params |-> r.params, err |-> r.err]
    /\ UNCHANGED <<cc, built, reg, arg, components>>
    /\ UNCHANGED invocations

NextParams == MethodToContractFunctionParams

SpecParams == InitParams /\ [][NextParams]_vars

\* ------------------------------------------------------------------------
\* ContractFunction.Call, with every number of params
\* ------------------------------------------------------------------------

\* the most params a function is called with
MaxArgs == 3

\* the functions called: of no parameter, of two strings, of a string and
\* an int
CalledFunctions == {ReturnsString("na"), GoodMethod("na"), SomeFunction("na")}

InitCall ==
    /\ NoChaincode
    /\ \E cf \in CalledFunctions :
          \E params \in SeqsUpTo({<<"a">>, <<"1">>}, MaxArgs) :
              \E supplementaryMetadata \in {NoMetadata, ReflectMetadata(cf)} :
                  arg = [cf |-> cf, params |-> params, supplementaryMetadata |-> supplementaryMetadata]
    /\ out = [pc |-> "call"]
    /\ components = <<>>

\* cf.Call(ctx, supplementaryMetadata, components, params...)
CallCall ==
    /\ out.pc = "call"
    /\ \E r \in {Call(arg.cf, 0, arg.supplementaryMetadata, {}, arg.params, 1, heap)} :
          out' = [pc |-> "return", str |-> r.res.str, iface |-> r.res.iface, err |-> r.res.err,
                  entries |-> r.entries]
    /\ UNCHANGED <<cc, built, reg, arg, components>>
    /\ UNCHANGED invocations

NextCall == CallCall

SpecCall == InitCall /\ [][NextCall]_vars

\* ------------------------------------------------------------------------
\* JSONSerializer.ToString, with the schemas a value may be held against
\* ------------------------------------------------------------------------

\* no schema, and the schemas of a string, an integer and an array
ResultSchemas == {NilSchema, Schema("string", ""), Schema("integer", ""), Schema("array", "")}

InitToString ==
    /\ NoChaincode
    /\ \E v \in Serialized :
          \E schema \in ResultSchemas :
              arg = [v |-> v, t |-> v.kind, schema |-> schema]
    /\ out = [pc |-> "call"]
    /\ components = <<>>

\* serializer.ToString(v, t, schema, components)
ToStringWithSchema ==
    /\ out.pc = "call"
    /\ \E r \in {ToStringWith(arg.v, arg.t, arg.schema, {})} :
          out' = [pc |-> "return", str |-> r.str, err |-> r.err]
    /\ UNCHANGED <<cc, built, reg, arg, components>>
    /\ UNCHANGED invocations

NextToString == ToStringWithSchema

SpecToString == InitToString /\ [][NextToString]_vars

\* ------------------------------------------------------------------------
\* handleResponse, of every list of values against every signature
\* ------------------------------------------------------------------------

\* the values of a response: a string, a nil error and an error
ResponseValues == {StringValue(<<"a">>), NilError, ErrorValue(someError)}

\* the contractFunctionReturns: nothing, a string, an error, both
ReturnDetails == {Returns(s, e) : s \in {"nil", "string"}, e \in BOOLEAN}

InitResponse ==
    /\ NoChaincode
    /\ arg \in [response : SeqsUpTo(ResponseValues, MaxOut), returns : ReturnDetails]
    /\ out = [pc |-> "call"]
    /\ components = <<>>

\* handleResponse(response, function)
HandleResponse ==
    /\ out.pc = "call"
    /\ \E r \in {handleResponse(arg.response, arg.returns)} :
          out' = [pc |-> "return", str |-> r.str, iface |-> r.iface, err |-> r.err]
    /\ UNCHANGED <<cc, built, reg, arg, components>>
    /\ UNCHANGED invocations

NextResponse == HandleResponse

SpecResponse == InitResponse /\ [][NextResponse]_vars

\* ------------------------------------------------------------------------
\* typeIsValid and GetSchema, call by call on the stack of the goroutine
\* ------------------------------------------------------------------------

\* the calls the stack of the goroutine holds before it overflows
MaxDepth == 5

\* one call of typeIsValid or GetSchema on the stack: its arguments, the
\* number of calls it has made itself, and (addComponentIfNotExists) the
\* schema of the struct so far
Frame(t, additionalTypes) ==
    [t |-> t, additionalTypes |-> additionalTypes, i |-> 0, schema |-> ObjectMetadata(<<>>, <<>>)]

\* the struct under a type that is a struct or a pointer to one
StructUnder(t) == IF reflectTypes[t].kind = "ptr" THEN reflectTypes[t].elem ELSE t

\* the calls of typeIsValid that typeIsValid(t, additionalTypes) makes, in
\* order, when none of them returns an error
typeIsValidCalls(t, additionalTypes) ==
    LET T == reflectTypes[t]
        fields == reflectTypes[StructUnder(t)].fields
    IN  IF T.kind = "array"
        THEN IF T.len < 1 THEN <<>> ELSE <<Frame(T.elem, additionalTypes)>>
        ELSE IF T.kind = "slice" THEN <<Frame(T.elem, {})>>
        ELSE IF T.kind = "map"
        THEN IF reflectTypes[T.key].kind # "string" THEN <<>> ELSE <<Frame(T.elem, {})>>
        ELSE IF isStruct(t) /\ ~typeInSlice(t, additionalTypes)
        THEN [i \in 1..Len(fields) |-> Frame(fields[i].type, additionalTypes)]
        ELSE <<>>

\* the calls of GetSchema that GetSchema(field, components) makes, in order,
\* when none of them returns an error
GetSchemaCalls(field, schemas) ==
    LET T == reflectTypes[field]
        fields == reflectTypes[StructUnder(field)].fields
        reached == {i \in 1..Len(fields) : \A j \in 1..i : IsExported(fields[j].name)}
    IN  IF T.kind = "array" THEN IF T.len < 1 THEN <<>> ELSE <<Frame(T.elem, {})>>
        ELSE IF T.kind \in {"slice", "map"} THEN <<Frame(T.elem, {})>>
        ELSE IF isStruct(field) /\ reflectTypes[StructUnder(field)].name \notin DOMAIN schemas
        THEN [i \in reached |-> Frame(fields[i].type, {})]
        ELSE <<>>

\* the call on top of the stack returns
Returned(o, err, schema) ==
    LET rest == SubSeq(o.stack, 1, Len(o.stack) - 1)
    IN  [pc |-> IF rest = <<>> THEN "return" ELSE "resume", stack |-> rest, err |-> err,
         schema |-> schema]

\* the call on top of the stack, with the schema of its struct so far, makes
\* its next call; the stack overflows when it holds MaxDepth calls
MakesCall(o, schema, call) ==
    IF Len(o.stack) >= MaxDepth THEN [o EXCEPT !.pc = "overflow"]
    ELSE [pc |-> "enter",
          stack |-> Append([o.stack EXCEPT ![Len(o.stack)].i = @ + 1,
                                           ![Len(o.stack)].schema = schema], call),
          err |-> <<>>, schema |-> NilSchema]

RecursionExtras == {{}, {"error"}, {"main.Node"}, {"main.Tree"}}

InitRecursion ==
    /\ NoChaincode
    /\ arg \in [f : {"typeIsValid"}, t : DOMAIN reflectTypes, additionalTypes : RecursionExtras]
              \cup [f : {"GetSchema"}, t : DOMAIN reflectTypes, additionalTypes : {{}}]
    /\ out = [pc |-> "enter", stack |-> <<Frame(arg.t, arg.additionalTypes)>>, err |-> <<>>,
              schema |-> NilSchema]
    /\ components = <<>>

\* typeIsValid, from its first line to its first call of typeIsValid or, if
\* it makes none, to its return
TypeIsValidEnter ==
    /\ arg.f = "typeIsValid"
    /\ out.pc = "enter"
    /\ \E top \in {out.stack[Len(out.stack)]} :
       \E calls \in {typeIsValidCalls(top.t, top.additionalTypes)} :
          out' = IF calls = <<>>
                 THEN Returned(out, typeIsValid(top.t, top.additionalTypes), NilSchema)
                 ELSE MakesCall(out, top.schema, calls[1])
    /\ UNCHANGED <<cc, built, reg, arg, components>>
    /\ UNCHANGED invocations

\* typeIsValid (arrayOfValidType, structOfValidType), from the return of
\* a call it made to its next call or its own return
TypeIsValidResume ==
    /\ arg.f = "typeIsValid"
    /\ out.pc = "resume"
    /\ \E top \in {out.stack[Len(out.stack)]} :
       \E calls \in {typeIsValidCalls(top.t, top.additionalTypes)} :
          out' = IF out.err # <<>> \/ top.i >= Len(calls)
                 THEN Returned(out, out.err, NilSchema)
                 ELSE MakesCall(out, top.schema, calls[top.i + 1])
    /\ UNCHANGED <<cc, built, reg, arg, components>>
    /\ UNCHANGED invocations

\* GetSchema, from its first line to its first call of GetSchema or, if it
\* makes none, to its return
GetSchemaEnter ==
    /\ arg.f = "GetSchema"
    /\ out.pc = "enter"
    /\ \E top \in {out.stack[Len(out.stack)]} :
       \E calls \in {GetSchemaCalls(top.t, components)} :
          IF calls = <<>>
          THEN \E r \in {GetSchema(top.t, components)} :
                  /\ out' = Returned(out, r.err, r.schema)
                  /\ components' = r.components
          ELSE /\ out' = MakesCall(out, top.schema, calls[1])
               /\ UNCHANGED components
    /\ UNCHANGED <<cc, built, reg, arg>>
    /\ UNCHANGED invocations

\* GetSchema (the builders, addComponentIfNotExists), from the return of a
\* call it made to its next call or its own return: the component of a
\* struct is stored after the loop over its fields
GetSchemaResume ==
    /\ arg.f = "GetSchema"
    /\ out.pc = "resume"
    /\ \E top \in {out.stack[Len(out.stack)]} :
       \E calls \in {GetSchemaCalls(top.t, <<>>)} :
       \E T \in {reflectTypes[top.t]} :
          IF out.err # <<>>
          THEN /\ out' = Returned(out, out.err, NilSchema)
               /\ UNCHANGED components
          ELSE IF T.kind \in {"array", "slice"}
          THEN /\ out' = Returned(out, <<>>, ArrayProperty(out.schema))
               /\ UNCHANGED components
          ELSE IF T.kind = "map"
          THEN /\ out' = Returned(out, <<>>, MapProperty(out.schema))
               /\ UNCHANGED components
          ELSE \E field \in {reflectTypes[StructUnder(top.t)].fields[top.i]} :
               \E name \in {IF field.tag = "" THEN field.name ELSE field.tag} :
               \E schema \in {ObjectMetadata((name :> out.schema) @@ top.schema.Properties,
                                             Append(top.schema.Required, name))} :
                  IF top.i >= Len(calls)
                  THEN /\ out' = Returned(out, <<>>,
                                          RefSchema(<<"#/components/schemas/",
                                                      reflectTypes[StructUnder(top.t)].name>>))
                       /\ components' = (reflectTypes[StructUnder(top.t)].name :> schema)
                                        @@ components
                  ELSE /\ out' = MakesCall(out, schema, calls[top.i + 1])
                       /\ UNCHANGED components
    /\ UNCHANGED <<cc, built, reg, arg>>
    /\ UNCHANGED invocations

NextRecursion == TypeIsValidEnter \/ TypeIsValidResume \/ GetSchemaEnter \/ GetSchemaResume

\* a goroutine that is running goes on running
SpecRecursion == InitRecursion /\ [][NextRecursion]_vars /\ WF_vars(NextRecursion)

\* ------------------------------------------------------------------------
\* Properties of one invocation
\* ------------------------------------------------------------------------

\* Invoke resolved the contract of invocation d
InContract(d) == pc[d] \in {"before", "call", "after", "done"} /\ ns[d] \in DOMAIN cc.contracts

\* ... and the contract has the function asked for
KnownFunction(d) == InContract(d) /\ fn[d] \in DOMAIN cc.contracts[ns[d]].functions

UnknownFunction(d) == InContract(d) /\ fn[d] \notin DOMAIN cc.contracts[ns[d]].functions

BothHandlers(d) ==
    /\ ~cc.contracts[ns[d]].beforeTransaction.isNil
    /\ ~cc.contracts[ns[d]].afterTransaction.isNil

CalledNames(d) == [i \in 1..Len(called[d]) |-> called[d][i].name]

CalledTypes(d) == [i \in 1..Len(called[d]) |-> called[d][i].handlesType]

IsPrefix(s, t) == Len(s) <= Len(t) /\ s = SubSeq(t, 1, Len(s))

\* before, named, after: the functions in the order Invoke is to call them
BeforeNamedAfter(d) ==
    <<cc.contracts[ns[d]].beforeTransaction.function.name,
      cc.contracts[ns[d]].functions[fn[d]].function.name,
      cc.contracts[ns[d]].afterTransaction.function.name>>

NoneFailed(d) == \A i \in 1..Len(called[d]) : called[d][i].error.isNil

\* C1: in an invocation of a known function of a contract with a before and
\* an after transaction, each of before, named and after is called at most
\* once and in that order; when the named function was called and nothing
\* called returned an error, all three were called and the response is a
\* success; and a success is returned only after all three were called.
C1_BeforeNamedAfterInOrder ==
    \A d \in Dispatches :
        KnownFunction(d) /\ BothHandlers(d) =>
            /\ IsPrefix(CalledNames(d), BeforeNamedAfter(d))
            /\ IsPrefix(CalledTypes(d), <<"before", "na", "after">>)
            /\ pc[d] = "done" /\ NoneFailed(d) /\ Len(called[d]) >= 2 =>
                  /\ CalledNames(d) = BeforeNamedAfter(d)
                  /\ response[d] = Success(ret[d].str)
            /\ pc[d] = "done" /\ response[d].status = 200 =>
                  CalledNames(d) = BeforeNamedAfter(d)

\* the test's invocation: logBefore, LogNamed, logAfter, answered with
\* "named response"
C1_Witness ==
    \E d \in Dispatches :
        /\ pc[d] = "done"
        /\ KnownFunction(d)
        /\ CalledNames(d) = <<"logBefore", "LogNamed", "logAfter">>
        /\ response[d] = Success(<<"named response">>)

\* C2: when the before transaction returns an error, it is the only call of
\* the invocation (neither the named function nor the after transaction is
\* called) and the response is the failure with that error's message.
C2_BeforeErrorAborts ==
    \A d \in Dispatches : \A i \in 1..Len(called[d]) :
        called[d][i].handlesType = "before" /\ ~called[d][i].error.isNil =>
            /\ Len(called[d]) = 1
            /\ pc[d] = "done"
            /\ response[d] = Error(called[d][i].error.s)

C2_Witness ==
    \E d \in Dispatches :
        /\ pc[d] = "done"
        /\ KnownFunction(d) /\ BothHandlers(d)
        /\ CalledTypes(d) = <<"before">>
        /\ response[d] = Error(someError)

\* C3: when the named function returns an error, it is the last call of the
\* invocation (the after transaction is not called) and the response is the
\* failure with that error's message.
C3_NamedErrorSkipsAfter ==
    \A d \in Dispatches : \A i \in 1..Len(called[d]) :
        called[d][i].handlesType = "na" /\ ~called[d][i].error.isNil =>
            /\ i = Len(called[d])
            /\ pc[d] = "done"
            /\ response[d] = Error(called[d][i].error.s)

C3_Witness ==
    \E d \in Dispatches :
        /\ pc[d] = "done"
        /\ KnownFunction(d) /\ BothHandlers(d)
        /\ CalledTypes(d) = <<"before", "na">>
        /\ called[d][1].error.isNil
        /\ response[d] = Error(someError)

\* C4: when the after transaction returns an error, the response is the
\* failure with that error's message and carries no payload, whatever the
\* named function returned.
C4_AfterErrorReplaces ==
    \A d \in Dispatches : \A i \in 1..Len(called[d]) :
        called[d][i].handlesType = "after" /\ ~called[d][i].error.isNil =>
            /\ pc[d] = "done"
            /\ response[d].status = 500
            /\ response[d].message = called[d][i].error.s
            /\ response[d].payload = <<>>

C4_Witness ==
    \E d \in Dispatches :
        /\ pc[d] = "done"
        /\ KnownFunction(d)
        /\ ret[d].str = <<"Some string">>
        /\ called[d][Len(called[d])].handlesType = "after"
        /\ response[d] = Error(someError)

\* the value last written to the context in invocation d before its call i
\* (the zero value when there was none)
LastWrite(d, i) ==
    LET ws == {j \in 1..(i - 1) : called[d][j].wrote}
    IN  IF ws = {} THEN <<>> ELSE called[d][CHOOSE j \in ws : \A k \in ws : k <= j].written

\* C5: one context is created per invocation that reaches a contract, it
\* holds the invocation's stub, every function that takes the context gets
\* that instance, and what a function reads in it is what the last earlier
\* call of the same invocation wrote.
C5_OneContextPerInvocation ==
    \A d \in Dispatches :
        /\ made[d] <= 1
        /\ InContract(d) =>
              /\ made[d] = 1
              /\ ctx[d] # 0
              /\ heap[ctx[d]].live
              /\ heap[ctx[d]].stub = d
        /\ \A i \in 1..Len(called[d]) :
              called[d][i].ctx # 0 =>
                  /\ called[d][i].ctx = ctx[d]
                  /\ called[d][i].read = LastWrite(d, i)

\* SetValInCustomContext before, GetValInCustomContext named and after:
\* both read the value the before transaction stored
C5_Witness ==
    \E d \in Dispatches :
        /\ pc[d] = "done"
        /\ CalledTypes(d) = <<"before", "na", "after">>
        /\ called[d][1].wrote /\ called[d][1].written = standardValue
        /\ called[d][2].ctx = ctx[d] /\ called[d][2].read = standardValue
        /\ called[d][3].ctx = ctx[d] /\ called[d][3].read = standardValue
        /\ response[d] = Success(standardValue)

\* C6: with invocations in parallel, no two of them hold the same context,
\* a function never reads in its context a value another invocation wrote
\* (it reads what its own invocation last wrote), and the chaincode stays as
\* CreateNewChaincode returned it.
C6_InvocationsIsolated ==
    /\ cc = built
    /\ \A d, e \in Dispatches : d # e /\ ctx[d] # 0 => ctx[d] # ctx[e]
    /\ \A d \in Dispatches : \A i \in 1..Len(called[d]) :
          /\ called[d][i].readBy \in {0, d}
          /\ called[d][i].ctx # 0 => called[d][i].read = LastWrite(d, i)

\* two invocations in flight that stored different values, one of which has
\* read its own value back
C6_Witness ==
    \E d, e \in Dispatches :
        /\ d # e
        /\ pc[d] = "done" /\ pc[e] = "after"
        /\ Len(called[d]) >= 2 /\ Len(called[e]) >= 1
        /\ called[d][1].wrote /\ called[d][1].written = standardValue
        /\ called[e][1].wrote /\ called[e][1].written = <<"a">>
        /\ called[d][Len(called[d])].handlesType = "after"
        /\ called[d][Len(called[d])].read = standardValue

\* C7: an invocation returns one response, when it is done and not before;
\* the response is a success with a payload or a failure with a message;
\* and once a function called for the invocation returned a non-nil error
\* (also beside a value) the response is the failure with that error.
C7_OneResponse ==
    \A d \in Dispatches :
        /\ pc[d] = "done" =>
              /\ sent[d] = 1
              /\ response[d].status \in {200, 500}
              /\ response[d].status = 200 => response[d] = Success(response[d].payload)
              /\ response[d].status = 500 => response[d] = Error(response[d].message)
        /\ pc[d] # "done" => sent[d] = 0 /\ response[d] = NoResponse
        /\ \A i \in 1..Len(called[d]) :
              ~called[d][i].error.isNil =>
                  /\ pc[d] = "done"
                  /\ response[d] = Error(called[d][i].error.s)

\* the named function returned "true" and an error: only the error is sent
C7_Witness ==
    \E d \in Dispatches :
        /\ pc[d] = "done"
        /\ Len(called[d]) >= 1
        /\ called[d][Len(called[d])].returned = <<StringValue(<<"true">>), ErrorValue(<<"some error">>)>>
        /\ response[d] = Error(<<"some error">>)
        /\ sent[d] = 1

\* the command is "<name>:<function>"
Qualified(nsFcn) == Len(nsFcn) = 3 /\ nsFcn[2] = ":"

\* C8: an invocation of "<name>:<function>" where the chaincode has no
\* contract <name> calls nothing and returns the failure "Contract not found
\* with name <name>", whatever the function and the parameters.
C8_ContractNotFound ==
    \A d \in Dispatches :
        /\ pc[d] \notin {"idle", "invoke"}
        /\ Qualified(stub[d].function)
        /\ <<stub[d].function[1]>> \notin DOMAIN cc.contracts
        => /\ pc[d] = "done"
           /\ called[d] = <<>>
           /\ response[d] = Error(<<"Contract not found with name ", stub[d].function[1]>>)

\* "somebadname:ReturnsString": the function exists, in other contracts
C8_Witness ==
    \E d \in Dispatches :
        /\ pc[d] = "done"
        /\ stub[d].function = <<"somebadname", ":", "ReturnsString">>
        /\ response[d] = Error(<<"Contract not found with name ", "somebadname">>)

\* the response a call makes by itself: the failure with its error, or the
\* success with the text of the value it returned
Outcome(entry) ==
    IF ~entry.error.isNil THEN Error(entry.error.s)
    ELSE IF entry.returned = <<>> \/ entry.returned[1].kind = "interface" THEN Success(<<>>)
    ELSE Success(Sprint(entry.returned[1]))

FunctionNotFound(d) == Error(<<"Function ">> \o fn[d] \o <<" not found in contract ">> \o ns[d])

UnknownCalls(d) == {i \in 1..Len(called[d]) : called[d][i].handlesType = "unknown"}

Failed(d, handlesType) ==
    \E i \in 1..Len(called[d]) :
        called[d][i].handlesType = handlesType /\ ~called[d][i].error.isNil

Unqualified(nsFcn) == \A i \in 1..Len(nsFcn) : nsFcn[i] # ":"

\* C10: two invocations with the same parameters, one of "<function>" and
\* one of "<default contract>:<function>", are answered alike; the one
\* without the name is run in the default contract.
C10_DefaultContract ==
    \A d, e \in Dispatches :
        /\ pc[d] = "done" /\ pc[e] = "done"
        /\ Unqualified(stub[d].function)
        /\ stub[e].function = cc.defaultContract \o <<":">> \o stub[d].function
        /\ stub[e].params = stub[d].params
        => /\ response[d] = response[e]
           /\ ns[d] = cc.defaultContract
           /\ CalledNames(d) = CalledNames(e)

\* "somebadfunctionname" and "<default>:somebadfunctionname": both fail
\* with the function not found in the default contract
C10_Witness ==
    \E d, e \in Dispatches :
        /\ pc[d] = "done" /\ pc[e] = "done"
        /\ stub[d].function = <<"somebadfunctionname">>
        /\ stub[e].function = cc.defaultContract \o <<":", "somebadfunctionname">>
        /\ response[d] = Error(<<"Function ", "somebadfunctionname", " not found in contract ">>
                               \o cc.defaultContract)
        /\ response[e] = response[d]

\* ------------------------------------------------------------------------
\* Properties of CreateNewChaincode
\* ------------------------------------------------------------------------

\* the name addContract derives for a contract
NameOf(contract) == IF contract.name = <<>> THEN <<contract.typeName>> ELSE contract.name

\* C11: when addContract is called with a contract whose name a contract of
\* the chaincode already has, it returns "Multiple contracts being merged
\* into chaincode with name <name>" and leaves the chaincode (the contract
\* of that name, every other contract and the default contract) as it was.
C11_NameConflict ==
    reg.pc # "none" /\ reg.last # 0
    /\ NameOf(reg.contracts[reg.last]) \in DOMAIN reg.prev.contracts
    => /\ reg.err = <<"Multiple contracts being merged into chaincode with name ">>
                    \o NameOf(reg.contracts[reg.last])
       /\ reg.cc = reg.prev

\* a second contract named customname: the first one is still there, with
\* its ReturnsString
C11_Witness ==
    /\ reg.pc = "returned"
    /\ reg.err = <<"Multiple contracts being merged into chaincode with name ", "customname">>
    /\ DOMAIN reg.cc.contracts = {<<"customname">>}
    /\ DOMAIN reg.cc.contracts[<<"customname">>].functions = {<<"ReturnsString">>}
    /\ reg.cc.defaultContract = <<"customname">>

\* the contract has a function no ContractFunction or TransactionHandler can
\* be made of
Faulty(contract) ==
    \/ \E i \in DOMAIN contract.methods : contract.methods[i].name = "BadMethod"
    \/ contract.unknownTransaction.name = "BadMethod"
    \/ contract.beforeTransaction.name = "BadMethod"
    \/ contract.afterTransaction.name = "BadMethod"

\* the error of that function
FaultOf(contract) ==
    <<IF \E i \in DOMAIN contract.methods : contract.methods[i].name = "BadMethod"
      THEN "BadMethod" ELSE "Function",
      " contains invalid single return type. ",
      "Type ", "complex64", " is not valid. Expected a struct, one of the basic types ">>
    \o listBasicTypes \o <<", an array/slice of these, or one of these additional types ", "error">>

\* the contracts CreateNewChaincode cannot add: faulty, or named as an
\* earlier one
Failing ==
    {k \in DOMAIN reg.contracts :
        \/ Faulty(reg.contracts[k])
        \/ \E j \in 1..(k - 1) : NameOf(reg.contracts[j]) = NameOf(reg.contracts[k])}

\* C12: CreateNewChaincode stops at the first contract it cannot add;
\* addContract has stored nothing for that contract (the chaincode is as it
\* was), the error is that of the contract's bad function, and what
\* CreateNewChaincode returns with it is the blank ContractChaincode, with
\* none of the contracts added before.  Without such a contract it returns
\* no error and the contracts passed.
C12_AllOrNothing ==
    reg.pc = "returned" =>
        IF Failing = {}
        THEN /\ reg.err = <<>>
             /\ {NameOf(reg.contracts[k]) : k \in DOMAIN reg.contracts} \subseteq DOMAIN cc.contracts
        ELSE LET first == CHOOSE k \in Failing : \A j \in Failing : k <= j
                 conflict == NameOf(reg.contracts[first]) \in DOMAIN reg.prev.contracts
             IN  /\ reg.last = first
                 /\ reg.err # <<>>
                 /\ ~conflict => reg.err = FaultOf(reg.contracts[first])
                 /\ ~conflict => NameOf(reg.contracts[first]) \notin DOMAIN reg.cc.contracts
                 /\ reg.cc = reg.prev
                 /\ DOMAIN reg.cc.contracts = {NameOf(reg.contracts[k]) : k \in 1..(first - 1)}
                 /\ cc = BlankChaincode

\* myContract was added, then badContract fails on BadMethod: the blank
\* chaincode is returned
C12_Witness ==
    /\ reg.pc = "returned"
    /\ Len(reg.contracts) = 2
    /\ reg.last = 2
    /\ reg.contracts[2].typeName = "badContract"
    /\ DOMAIN reg.cc.contracts = {<<"myContract">>}
    /\ reg.err[1] = "BadMethod"
    /\ cc = BlankChaincode

\* the text GetMetadata of the system contract returns when called as a
\* contract function
GetMetadataText ==
    Call(cc.contracts[SystemContractName].functions[<<"GetMetadata">>], 0, NoMetadata, {},
         <<>>, 1, heap).res.str

Occurs(token, text) == \E i \in DOMAIN text : text[i] = token

\* C13: a CreateNewChaincode that returns no error returns a chaincode with
\* the contracts passed and the system contract, one more than were passed;
\* the system contract has the one function GetMetadata, an evaluate
\* transaction, and the metadata GetMetadata returns is that of all these
\* contracts, the system contract among them.
C13_SystemContract ==
    reg.pc = "returned" /\ reg.err = <<>> =>
        /\ Cardinality(DOMAIN cc.contracts) = Len(reg.contracts) + 1
        /\ DOMAIN cc.contracts =
              {NameOf(reg.contracts[k]) : k \in DOMAIN reg.contracts} \cup {SystemContractName}
        /\ DOMAIN cc.contracts[SystemContractName].functions = {<<"GetMetadata">>}
        /\ cc.contracts[SystemContractName].functions[<<"GetMetadata">>].callType = CallTypeEvaluate
        /\ GetMetadataText = metadataJSON(reflectMetadata(cc))
        /\ \A name \in DOMAIN cc.contracts :
              \E i \in 1..(Len(GetMetadataText) - 2) :
                  /\ GetMetadataText[i] = "\""
                  /\ GetMetadataText[i + 1] = name[1]
                  /\ GetMetadataText[i + 2] = "\":{\"name\":\""

\* CreateNewChaincode(new(myContract), new(evaluateContract)): three
\* contracts, all in the metadata
C13_Witness ==
    /\ reg.pc = "returned"
    /\ reg.err = <<>>
    /\ DOMAIN cc.contracts = {<<"myContract">>, <<"evaluateContract">>, SystemContractName}
    /\ Occurs("org.hyperledger.fabric", GetMetadataText)
    /\ Occurs("evaluateContract", GetMetadataText)
    /\ cc.contracts[<<"evaluateContract">>].functions[<<"ReturnsString">>].callType = CallTypeEvaluate

\* ------------------------------------------------------------------------
\* C14: what the after transaction is handed
\* ------------------------------------------------------------------------

\* the success value among the values a function returned: the nil
\* interface{} when it returned none
ReturnedValue(someResp) ==
    LET vals == {i \in 1..Len(someResp) : someResp[i].kind # "interface"}
    IN  IF vals = {} THEN Invalid ELSE someResp[CHOOSE i \in vals : \A j \in vals : i <= j]

\* the after transaction of the contract of invocation d takes one parameter
AfterTakesData(d) ==
    /\ ns[d] \in DOMAIN cc.contracts
    /\ Len(cc.contracts[ns[d]].afterTransaction.params.fields) = 1

\* C14: an after transaction that takes one parameter is called right after
\* the named or the unknown transaction and is handed the value that one
\* returned, as the value it is (nil when it returned none): not the text
\* of it, not a parameter of the invocation, not what the before transaction
\* returned.
C14_AfterGetsReturn ==
    \A d \in Dispatches :
        \A i \in 1..Len(called[d]) :
            (called[d][i].handlesType = "after" /\ AfterTakesData(d)) =>
                /\ i > 1
                /\ called[d][i - 1].handlesType \in {"na", "unknown"}
                /\ called[d][i].data = ReturnedValue(called[d][i - 1].returned)

\* an after transaction was handed the int a named transaction returned
\* after a before transaction that returned a string, and another the nil
\* of an unknown transaction that returns nothing
C14_Witness ==
    /\ Len(called[1]) = 3
    /\ called[1][1].handlesType = "before"
    /\ called[1][1].returned = <<StringValue(<<"Some string">>)>>
    /\ called[1][2].name = "AnotherGoodMethod"
    /\ called[1][3].name = "logAfter"
    /\ called[1][3].data = IntValue(1)
    /\ stub[1].params = <<standardValue>>
    /\ Len(called[2]) = 3
    /\ called[2][2].handlesType = "unknown"
    /\ called[2][2].returned = <<>>
    /\ called[2][3].name = "logAfter"
    /\ called[2][3].data = Invalid

\* ------------------------------------------------------------------------
\* C15: the payload of a successful invocation
\* ------------------------------------------------------------------------

\* the text of a value a function returned: fmt.Sprint of it, empty for none
TextOf(v) == IF v.valid THEN Sprint(v) ELSE <<>>

\* the calls of invocation d that were calls of a named function
NamedCalls(d) == {i \in 1..Len(called[d]) : called[d][i].handlesType = "na"}

\* invocation d was answered with a success for a function of its contract
Succeeded(d) ==
    /\ pc[d] = "done"
    /\ response[d].status = 200
    /\ KnownFunction(d)

\* C15: the payload of a successful invocation of a known function is the
\* text of the value the named function returned, whatever the before and
\* the after transaction returned.
C15_PayloadIsNamedReturn ==
    \A d \in Dispatches :
        Succeeded(d) =>
            /\ Cardinality(NamedCalls(d)) = 1
            /\ \A i \in NamedCalls(d) :
                  response[d].payload = TextOf(ReturnedValue(called[d][i].returned))

\* a named function returned 1 between a before and an after transaction
\* that each returned "Some string", and the payload is "1"
C15_Witness ==
    /\ Succeeded(1)
    /\ Len(called[1]) = 3
    /\ called[1][1].handlesType = "before"
    /\ called[1][1].returned = <<StringValue(<<"Some string">>)>>
    /\ called[1][2].name = "AnotherGoodMethod"
    /\ called[1][3].handlesType = "after"
    /\ called[1][3].returned = <<StringValue(<<"Some string">>)>>
    /\ response[1].payload = <<"1">>

\* ------------------------------------------------------------------------
\* C16: the fields of a struct that typeIsValid examines
\* ------------------------------------------------------------------------

\* typeIsValid was applied to a struct, or a pointer to one, that is not
\* one of the additional types
ValidatedStruct ==
    /\ out.pc = "return"
    /\ isStruct(arg.t)
    /\ arg.t \notin arg.additionalTypes

\* the fields of the struct typeIsValid was applied to
FieldsOf(t) ==
    IF reflectTypes[t].kind = "ptr" THEN reflectTypes[reflectTypes[t].elem].fields
    ELSE reflectTypes[t].fields

\* the fields before the first one whose name is not exported
ExportedPrefix(fields) ==
    {i \in 1..Len(fields) : \A j \in 1..i : IsExported(fields[j].name)}

\* the fields of the set S whose type is not valid
Invalid16(fields, S) == {i \in S : typeIsValid(fields[i].type, arg.additionalTypes) # <<>>}

\* C16 as stated: the fields after the first one that is not exported are
\* never examined, so that a struct is valid when the exported fields before
\* it are.
C16_HaltsAtUnexported ==
    ValidatedStruct =>
        (out.err = <<>> <=> Invalid16(FieldsOf(arg.t), ExportedPrefix(FieldsOf(arg.t))) = {})

\* C16: the validation of a struct examines every field, exported or not,
\* in the order of declaration: the struct is valid when every field is,
\* and the error is that of the first field whose type is not valid.
C16_ExaminesEveryField ==
    ValidatedStruct =>
        LET fields == FieldsOf(arg.t)
            bad == Invalid16(fields, 1..Len(fields))
        IN  /\ out.err = <<>> <=> bad = {}
            /\ bad # {} =>
                  LET first == CHOOSE i \in bad : \A j \in bad : i <= j
                  IN  out.err = typeIsValid(fields[first].type, arg.additionalTypes)

\* the struct of the fields Exported1 string, unexported int, Exported2
\* complex64 was validated, and the error names complex64
C16_Witness ==
    /\ ValidatedStruct
    /\ arg.t = "main.Mixed"
    /\ arg.additionalTypes = {}
    /\ out.err = <<"Type ", "complex64", " is not valid. Expected a struct or one of the basic types ">>
                 \o listBasicTypes \o <<" or an array/slice of these">>

\* ------------------------------------------------------------------------
\* C17: the component of a struct
\* ------------------------------------------------------------------------

\* the struct under a struct type or a pointer to one
StructOf(t) == IF reflectTypes[t].kind = "ptr" THEN reflectTypes[t].elem ELSE t

\* the last call of GetSchema made the component of the struct it was
\* called with
Generated ==
    /\ out.n > 0
    /\ out.last.err = <<>>
    /\ isStruct(out.last.t)
    /\ reflectTypes[StructOf(out.last.t)].name \notin DOMAIN out.last.before

\* the name encoding/json gives a field with the tag: the text before the
\* first comma
TagName ==
    ("prop1" :> "prop1") @@ ("prop2" :> "prop2") @@ ("Prop1" :> "Prop1") @@ ("first" :> "first")
    @@ ("second" :> "second") @@ ("first,omitempty" :> "first")

JSONAlias(field) == IF field.tag = "" THEN field.name ELSE TagName[field.tag]

\* the value of the json tag, the name of the field when it has none
TagValue(field) == IF field.tag = "" THEN field.name ELSE field.tag

\* the component made for the struct has, as required and as properties,
\* the fields before the first one that is not exported, in the order of
\* declaration, each under NameOfField
ComponentOfExportedPrefix(NameOfField(_)) ==
    Generated =>
        LET o == StructOf(out.last.t)
            fields == reflectTypes[o].fields
            n == Cardinality({i \in 1..Len(fields) : \A j \in 1..i : IsExported(fields[j].name)})
            schema == components[reflectTypes[o].name]
        IN  /\ schema.Required = [i \in 1..n |-> NameOfField(fields[i])]
            /\ DOMAIN schema.Properties = {NameOfField(fields[i]) : i \in 1..n}

\* C17 as stated: the component of a struct holds the fields before the
\* first one that is not exported, each both required and a property, under
\* its json alias when it declares one and under its own name otherwise.
C17_ComponentUnderAlias == ComponentOfExportedPrefix(JSONAlias)

\* the same, each field under the whole value of its json tag
ComponentUnderTagValue == ComponentOfExportedPrefix(TagValue)

\* the component of the struct of Exported1, unexported, Exported2 was made,
\* with Exported1 alone under its alias
C17_Witness ==
    /\ Generated
    /\ out.last.t = "main.Hidden"
    /\ components["Hidden"].Required = <<"first">>

\* ------------------------------------------------------------------------
\* C18: the components and the struct types
\* ------------------------------------------------------------------------

\* the component GetSchema refers a struct type to, on the components as
\* they are
EntryOf(t) == GetSchema(t, components).schema

\* C18 as stated: there is one component for each struct type GetSchema came
\* to, no two struct types are referred to one component, and a struct and
\* the pointer to it are referred to the same one.
C18_OneComponentPerStruct ==
    /\ Cardinality(DOMAIN components) = Cardinality(out.structs)
    /\ \A a, b \in out.structs : a # b => EntryOf(a) # EntryOf(b)
    /\ \A t \in SchemaTypes :
          (reflectTypes[t].kind = "ptr" /\ reflectTypes[t].elem \in out.structs) =>
              EntryOf(t) = EntryOf(reflectTypes[t].elem)

\* GetSchema returned a schema for two struct types of one name in two
\* packages
C18_Witness ==
    /\ {"internal.goodStruct", "other.goodStruct"} \subseteq out.structs
    /\ out.last.t = "other.goodStruct"
    /\ out.last.err = <<>>

\* ------------------------------------------------------------------------
\* C19: GetSchema called again
\* ------------------------------------------------------------------------

\* the last two calls of GetSchema were for the same type, and the first of
\* them returned a schema
Repeated ==
    /\ out.n >= 2
    /\ out.last.t = out.prev.t
    /\ out.prev.err = <<>>

\* C19: GetSchema called again for a type it returned a schema for returns
\* an equal schema and leaves the components as the first call left them.
C19_RepeatedCallStable ==
    Repeated =>
        /\ out.last.err = <<>>
        /\ out.last.schema = out.prev.schema
        /\ components = out.last.before

\* GetSchema was called twice for a slice of structs: the first call made the
\* component, the second found it
C19_Witness ==
    /\ Repeated
    /\ out.last.t = "[]internal.goodStruct"
    /\ "goodStruct" \notin DOMAIN out.prev.before
    /\ "goodStruct" \in DOMAIN components
    /\ out.last.schema = ArrayProperty(RefSchema(<<"#/components/schemas/", "goodStruct">>))

\* ------------------------------------------------------------------------
\* C20: from a value to its text and back
\* ------------------------------------------------------------------------

\* C20 as stated: the text ToString gives for a value is converted back by
\* FromString, for the type of the value, to a value equal to it; the nil
\* slice, whose text is empty, included.
C20_RoundTrip ==
    out.pc = "back" => out.ok /\ out.value = arg.v

\* the same for the values that are not nil
RoundTripOfPresent ==
    (out.pc = "back" /\ ~arg.v.isNil) => out.ok /\ out.value = arg.v

\* the empty text of a nil slice was handed to FromString, which returned
\* an error
C20_Witness ==
    /\ out.pc = "back"
    /\ arg.v = NilSlice
    /\ out.text = <<>>
    /\ ~out.ok

\* ------------------------------------------------------------------------
\* Properties of Append
\* ------------------------------------------------------------------------

\* the sections of a document that hold nothing: the info that is the
\* blank info, the contracts with no entry, the components never set
EmptySections(doc) ==
    (IF doc.Info = BlankInfo THEN {"Info"} ELSE {})
    \cup (IF DOMAIN doc.Contracts.entries = {} THEN {"Contracts"} ELSE {})
    \cup (IF doc.Components = ComponentMetadata(NilMap) THEN {"Components"} ELSE {})

\* what a section holds
Holds(doc, section) ==
    CASE section = "Info" -> doc.Info
      [] section = "Contracts" -> doc.Contracts.entries
      [] section = "Components" -> doc.Components

Classification(returns) ==
    IF returns.success = "nil" THEN (IF returns.error THEN "errorOnly" ELSE "none")
    ELSE (IF returns.error THEN "value+error" ELSE "value")

\* C22: a method of no return is classified none; of one return, errorOnly
\* when that is error and value when it is another type valid with error
\* allowed, and rejected otherwise; of two returns, value and error exactly
\* when the first is valid with no additional type allowed and the second is
\* error, and rejected otherwise; of more than two, rejected with the error
\* stating how many it returns. What is accepted has at most one value, of
\* the type of the first return, and one error.
C22_ReturnsClassified ==
    out.pc = "return" =>
        LET n == Len(arg.out)
            accepted == out.err = <<>>
            class == Classification(out.returns)
        IN  /\ n = 0 => accepted /\ class = "none"
            /\ n = 1 =>
                  /\ accepted <=> typeIsValid(arg.out[1], {"error"}) = <<>>
                  /\ accepted => class = (IF arg.out[1] = "error" THEN "errorOnly" ELSE "value")
            /\ n = 2 =>
                  /\ accepted <=> typeIsValid(arg.out[1], {}) = <<>> /\ arg.out[2] = "error"
                  /\ accepted => class = "value+error"
            /\ n > 2 =>
                  out.err = <<"Functions may only return a maximum of two values. ",
                              methodName(arg), " returns ">> \o Numerals[n]
            /\ accepted /\ out.returns.success # "nil" => out.returns.success = arg.out[1]
            /\ ~accepted => out.returns = Returns("nil", FALSE)

\* a method returning (string, error), accepted as a value and an error
C22_Witness ==
    /\ out.pc = "return"
    /\ arg.out = <<"string", "error">>
    /\ out.err = <<>>
    /\ out.returns = Returns("string", TRUE)

\* the parameter is of the context type of the contract
OfContextType(j) == arg.typeMethod.in[j] = arg.contextHandlerType

\* the parameter is of an interface type, not valid as a parameter of its
\* own, that the context type of the contract meets
OfContextInterface(j) ==
    LET inType == arg.typeMethod.in[j]
    IN  /\ inType # arg.contextHandlerType
        /\ reflectTypes[inType].kind = "interface"
        /\ typeIsValid(inType, {}) # <<>>
        /\ typeMatchesInterface(arg.contextHandlerType, inType) = <<>>

IsContextParam(j) == OfContextType(j) \/ OfContextInterface(j)

\* the positions after the first that hold a context parameter
LaterContexts == {j \in 2..Len(arg.typeMethod.in) : IsContextParam(j)}

\* the error naming the position of parameter j
WrongPosition(j) ==
    <<"Functions requiring the TransactionContext must require it as the first parameter. ",
      methodName(arg.typeMethod), " takes it in as parameter ">> \o Numerals[j - 1]

\* the parameters the loop does not go past: the first when it is neither
\* valid nor a context, a later one when it is not valid or is of the context
\* type
Stops(j) ==
    IF j = 1
    THEN typeIsValid(arg.typeMethod.in[1], {}) # <<>> /\ ~IsContextParam(1)
    ELSE typeIsValid(arg.typeMethod.in[j], {}) # <<>> \/ OfContextType(j)

\* C23 as stated: when a context parameter, of the context type or of an
\* interface it meets, is at a later position, the construction fails with
\* the error naming that position, and what is built without error lists no
\* context among its fields
C23_ContextOnlyFirst ==
    out.pc = "return" =>
        /\ LaterContexts # {} => \E j \in LaterContexts : out.err = WrongPosition(j)
        /\ out.err = <<>> =>
              \A i \in 1..Len(out.params.fields) :
                  \A j \in 1..Len(arg.typeMethod.in) :
                      IsContextParam(j) => out.params.fields[i] # arg.typeMethod.in[j]

\* C23: the construction fails whenever a context parameter is at a later
\* position; the error is that of the first parameter the loop stops at:
\* when that is a later parameter of the context type, the error naming its
\* position counted from 0, and when it is a later parameter of an interface
\* the context meets, the error of an invalid parameter type. What is built
\* without error takes the context from the first parameter only and lists
\* no context among its fields.
C23_ContextTypeOnlyFirst ==
    out.pc = "return" =>
        LET n == Len(arg.typeMethod.in)
            stops == {j \in 1..n : Stops(j)}
            first == CHOOSE j \in stops : \A k \in stops : j <= k
        IN  /\ LaterContexts # {} => out.err # <<>>
            /\ stops # {} /\ first > 1 /\ OfContextType(first) => out.err = WrongPosition(first)
            /\ stops # {} /\ first > 1 /\ OfContextInterface(first) =>
                  out.err = <<methodName(arg.typeMethod), " contains invalid parameter type. ">>
                            \o typeIsValid(arg.typeMethod.in[first], {})
            /\ out.err = <<>> =>
                  /\ out.params.context = (IF n > 0 /\ IsContextParam(1) THEN "ctx" ELSE "nil")
                  /\ \A i \in 1..Len(out.params.fields) :
                        \A j \in 1..n :
                            IsContextParam(j) => out.params.fields[i] # arg.typeMethod.in[j]

\* a method taking a string and then the interface the context meets,
\* turned down for an invalid parameter type
C23_Witness ==
    /\ out.pc = "return"
    /\ arg.typeMethod.name = "SomeMethod"
    /\ arg.typeMethod.in = <<"string", "contractapi.TransactionContextInterface">>
    /\ Len(out.err) > 2
    /\ SubSeq(out.err, 1, 2) = <<"SomeMethod", " contains invalid parameter type. ">>

\* ------------------------------------------------------------------------
\* Properties of ContractFunction.Call
\* ------------------------------------------------------------------------

\* the error stating the number of params expected and received
IncorrectNumber(expected, received) ==
    ErrorValue(<<"Incorrect number of params. Expected ">> \o Numerals[expected]
               \o <<", received ">> \o Numerals[received])

\* the call returned the error of the number of params, the function was
\* not called and no value came back
CountErrorOnly ==
    /\ out.err = IncorrectNumber(Len(arg.cf.params.fields), Len(arg.params))
    /\ out.entries = NoEntry
    /\ out.str = <<>>
    /\ out.iface = Invalid

FewerParamsFail ==
    out.pc = "return" /\ Len(arg.params) < Len(arg.cf.params.fields) => CountErrorOnly

C25_ToStringValidates ==
    out.pc = "return" /\ arg.schema # NilSchema =>
        LET err == validateAgainstSchema(arg.v, arg.schema, {})
        IN  IF err # <<>> THEN out.err = err /\ out.str = <<>>
            ELSE out.err = <<>> /\ out.str = SerializerToString(arg.v, arg.t)

\* the int 1 held against the schema of a string: ToString returns its
\* text and no error
C25_Witness ==
    /\ out.pc = "return"
    /\ arg.v = IntValue(1)
    /\ arg.schema = Schema("string", "")
    /\ validateAgainstSchema(arg.v, arg.schema, {}) # <<>>
    /\ out.str = <<"1">>
    /\ out.err = <<>>

\* ------------------------------------------------------------------------
\* C26: a function the contract does not have, between the hooks
\* ------------------------------------------------------------------------

\* the contract of invocation d has a before, an unknown and an after
\* transaction
AllHandlers(d) ==
    /\ BothHandlers(d)
    /\ ~cc.contracts[ns[d]].unknownTransaction.isNil

\* before, unknown, after: the handlers in the order Invoke is to call them
BeforeUnknownAfter(d) ==
    <<cc.contracts[ns[d]].beforeTransaction.function.name,
      cc.contracts[ns[d]].unknownTransaction.function.name,
      cc.contracts[ns[d]].afterTransaction.function.name>>

\* C26: in an invocation of a function the contract does not have, on a
\* contract with a before, an unknown and an after transaction, each of the
\* three is called at most once and in that order; when the response is
\* returned and none of them returned an error, all three were called, the
\* after transaction that takes a parameter was handed the value the unknown
\* transaction returned (nil when it returns nothing), and the response is
\* the success with the text of that value.
C26_BeforeUnknownAfterInOrder ==
    \A d \in Dispatches :
        UnknownFunction(d) /\ AllHandlers(d) =>
            /\ IsPrefix(CalledNames(d), BeforeUnknownAfter(d))
            /\ IsPrefix(CalledTypes(d), <<"before", "unknown", "after">>)
            /\ pc[d] = "done" /\ NoneFailed(d) =>
                  /\ CalledNames(d) = BeforeUnknownAfter(d)
                  /\ CalledTypes(d) = <<"before", "unknown", "after">>
                  /\ AfterTakesData(d) =>
                        called[d][3].data = ReturnedValue(called[d][2].returned)
                  /\ response[d] = Success(TextOf(ReturnedValue(called[d][2].returned)))

\* the test's invocation, "goodContract:somebadfunctionname" with logBefore,
\* logUnknown and logAfter set: the three are called in order, logAfter is
\* handed nil and the response is the success with no payload
C26_Witness ==
    /\ pc[1] = "done"
    /\ fn[1] = <<"somebadfunctionname">>
    /\ CalledNames(1) = <<"logBefore", "logUnknown", "logAfter">>
    /\ called[1][2].returned = <<>>
    /\ called[1][3].data = Invalid
    /\ response[1] = Success(<<>>)

\* ------------------------------------------------------------------------
\* C27: the additional types below an array, a slice, a map and a struct
\* ------------------------------------------------------------------------

\* the type is valid with the additional types and not without them
ValidOnlyListed(t, additionalTypes) ==
    typeIsValid(t, additionalTypes) = <<>> /\ typeIsValid(t, {}) # <<>>

\* C27: typeIsValid of an array of at least one element returns what it
\* returns for the element with the same additional types, and accepts a
\* struct that is not listed exactly when it accepts every field with the
\* same additional types; of a slice, and of a map with string keys, it
\* returns what it returns for the element with no additional type. So a
\* slice or a map of an element that is valid only as an additional type is
\* rejected, and listing an array, a slice or a map among the additional
\* types changes nothing to whether it is valid.
C27_ExtraNotBelowSliceOrMap ==
    out.pc = "return" =>
        LET T == reflectTypes[arg.t]
            A == arg.additionalTypes
            fields == reflectTypes[IF T.kind = "ptr" THEN T.elem ELSE arg.t].fields
        IN  /\ T.kind = "array" /\ T.len >= 1 => out.err = typeIsValid(T.elem, A)
            /\ isStruct(arg.t) /\ arg.t \notin A =>
                  (out.err = <<>> <=> \A i \in 1..Len(fields) : typeIsValid(fields[i].type, A) = <<>>)
            /\ T.kind = "slice" => out.err = typeIsValid(T.elem, {})
            /\ T.kind = "map" /\ reflectTypes[T.key].kind = "string" =>
                  out.err = typeIsValid(T.elem, {})
            /\ T.kind \in {"slice", "map"} /\ ValidOnlyListed(T.elem, A) => out.err # <<>>
            /\ T.kind \in {"array", "slice", "map"} =>
                  (out.err = <<>> <=> typeIsValid(arg.t, A \ {arg.t}) = <<>>)

\* with error allowed, an array of a slice of errors is turned down for the
\* error below the slice
C27_Witness ==
    /\ out.pc = "return"
    /\ arg.t = "[1][]error"
    /\ arg.additionalTypes = {"error"}
    /\ typeIsValid("[1]error", {"error"}) = <<>>
    /\ Len(out.err) > 2
    /\ SubSeq(out.err, 1, 3) = <<"Type ", "error", " is not valid. Expected a struct or one of the basic types ">>

\* ------------------------------------------------------------------------
\* C28: a response that is not of the shape of the signature
\* ------------------------------------------------------------------------

\* the number of values a signature implies
ImpliedLength(returns) ==
    CASE Classification(returns) = "none" -> 0
      [] Classification(returns) \in {"value", "errorOnly"} -> 1
      [] Classification(returns) = "value+error" -> 2

\* C28: when the number of values of the response is not the number the
\* signature implies, handleResponse returns the empty string, a nil value
\* and the error "response does not match expected return for given
\* function", whatever the values are
C28_ShapeErrorSurfaced ==
    out.pc = "return" /\ Len(arg.response) # ImpliedLength(arg.returns) =>
        /\ out.str = <<>>
        /\ out.iface = Invalid
        /\ out.err = ErrorValue(ResponseMismatch)

\* the test's call: no value for a function of a string and an error
C28_Witness ==
    /\ out.pc = "return"
    /\ arg.response = <<>>
    /\ arg.returns = Returns("string", TRUE)
    /\ out.str = <<>>
    /\ out.iface = Invalid
    /\ out.err = ErrorValue(ResponseMismatch)

\* ------------------------------------------------------------------------
\* C29: the functions of a contract of the chaincode
\* ------------------------------------------------------------------------

\* the contracts passed that the chaincode being built holds: the first of
\* its name, added without error
Registered ==
    {k \in DOMAIN reg.contracts :
        /\ NameOf(reg.contracts[k]) \in DOMAIN reg.cc.contracts
        /\ \A j \in 1..(k - 1) : NameOf(reg.contracts[j]) # NameOf(reg.contracts[k])}

\* the names of the public methods of a contract passed
MethodNames(contract) == {contract.methods[i].name : i \in DOMAIN contract.methods}

C30_Terminates == <>(out.pc = "return")

\* typeIsValid was called with the struct Node, whose field Next is a *Node:
\* the stack is full of calls on Node and *Node, and none has returned
C30_Witness ==
    /\ arg.f = "typeIsValid"
    /\ arg.t = "main.Node"
    /\ arg.additionalTypes = {}
    /\ out.pc = "overflow"
    /\ Len(out.stack) = MaxDepth
    /\ \A k \in 1..Len(out.stack) : out.stack[k].t \in {"main.Node", "*main.Node"}

\* the same of GetSchema: no component was stored for Node
GetSchemaOverflows ==
    /\ arg.f = "GetSchema"
    /\ arg.t = "main.Node"
    /\ out.pc = "overflow"
    /\ components = <<>>

\* the calls on the types that do not contain their own type come to their
\* return
OthersTerminate == (arg.t \notin RecursiveTypes) => <>(out.pc = "return")

\* a call that returns, returns what typeIsValid and GetSchema compute
ReturnsAsComputed ==
    out.pc = "return" =>
        IF arg.f = "typeIsValid"
        THEN out.err = typeIsValid(arg.t, arg.additionalTypes)
        ELSE Built(out.schema, out.err, components) = GetSchema(arg.t, <<>>)

\* only a call on a type that contains its own type overflows the stack
OverflowOnlyRecursive == out.pc = "overflow" => arg.t \in RecursiveTypes

====
